---- MODULE Spec2Model ----
(***************************************************************************)
(* A model of the WhatsApp-legacy / Matrix bridge (python_server).         *)
(*                                                                         *)
(*   SpecStart  : MatrixBridge.start(), the initial sync and the steady    *)
(*                sync loop (matrix_bridge.py).                            *)
(*   SpecCache  : the running bridge: sync batches, backfill, on-demand    *)
(*                lookups and delete-chat against RoomDirectory and        *)
(*                MessageCache (state.py, matrix_bridge.py).               *)
(*   SpecSocket : NotificationSocketServer, its connection handlers and    *)
(*                the detached broadcast tasks (socket_server.py).         *)
(*                                                                         *)
(* The specifications share the variables; each leaves the other parts'    *)
(* variables unchanged.                                                    *)
(***************************************************************************)
EXTENDS Integers, Sequences, FiniteSets, TLC

VARIABLES
    \* ---- MatrixBridge / state.py ----
    start_pc,        \* position of MatrixBridge.start()
    initial_result,  \* how the initial full-state sync ended
    ready,           \* MatrixBridge._ready (asyncio.Event)
    sync_task,       \* MatrixBridge._sync_task and the loop's position
    sync_token,      \* whether client.sync_token is set
    since,           \* what the token stands for on the homeserver: per room,
                     \* how far the room's history has been delivered by sync
    rooms,           \* RoomDirectory._rooms : room id -> RoomSnapshot
    room_contact_map, \* _room_contact_map: contact id -> room id
    room_order,      \* RoomDirectory._rooms: its keys in insertion order
    cache,           \* MessageCache._cache  : room id -> deque of records
    index,           \* MessageCache._index  : event id -> record
    dispatched,      \* broadcasts the latest batch handed to create_task
                     \* (followed in SpecIngest; SpecSocket has them as Emit)
    user_profiles,   \* MatrixBridge.user_profiles : user id -> profile
    \* ---- NotificationSocketServer ----
    clients,         \* NotificationSocketServer._clients
    authenticated,   \* SocketClient.authenticated, per connection
    hpc,             \* position of each connection's _handle_client task
    net,             \* what the peer's transport does with a write
    sent,            \* frames written to each connection, in order
    first_payload,   \* kind of the first payload the server handled
    inbuf,           \* payload in the StreamReader's buffer, not yet read
    closed,          \* writer.close() was called on the connection
    lock_holder,     \* task holding NotificationSocketServer._lock
    lock_waiters,    \* tasks waiting for the lock, in arrival order
    run_queue,       \* tasks created and not yet started (loop's ready queue)
    nemitted,        \* broadcasts dispatched so far (create_task calls)
    bpc,             \* position of each broadcast task
    btodo,           \* clients a broadcast task has still to visit
    bcur,            \* client a broadcast task is writing to
    bfailed,         \* clients whose write failed in a broadcast task
    connected_at,    \* history: nemitted when the connection was accepted
    pending_at,      \* history: broadcast tasks unfinished at that moment
    auth_at,         \* history: nemitted when the connection authenticated
    \* ---- shutdown (http_api._shutdown, MatrixBridge.stop) ----
    stop_pc,         \* position of _shutdown
    cancel_pending,  \* _sync_task.cancel() was called and not yet delivered
    client_closed,   \* client.close() has returned
    http_closed,     \* _http.aclose() has returned
    sockets_closed,  \* NotificationSocketServer.stop() has returned
    \* ---- MuteStore ----
    mutes,           \* MuteStore._data : contact id -> expiration
    mute_file,       \* mutes.json: whether it exists, and its JSON text
    mute_path,       \* whether config.matrix.store_path is set
    now              \* int(time.time())

bridge_vars == <<start_pc, initial_result, ready, sync_task, sync_token,
                 since, rooms, room_contact_map, room_order, cache, index,
                 dispatched, user_profiles>>
socket_vars == <<clients, authenticated, hpc, net, sent,
                 first_payload, inbuf, closed, lock_holder, lock_waiters, run_queue,
                 nemitted, bpc, btodo, bcur, bfailed, connected_at, pending_at,
                 auth_at>>
life_vars == <<stop_pc, cancel_pending, client_closed, http_closed, sockets_closed>>
mute_vars == <<mutes, mute_file, mute_path, now>>
vars == <<bridge_vars, socket_vars, life_vars, mute_vars>>

----------------------------------------------------------------------------
(* Bounds of the model *)

\* MessageCache's per-room capacity (512 by default), scaled down.
max_messages_per_room == 2
\* Longest timeline of one room in one sync batch.
MaxTimeline == 2
\* Longest chunk room_messages returns to fetch_messages.
MaxChunk == 2

----------------------------------------------------------------------------
(* The remote side: rooms and events the homeserver can deliver.  Event ids *)
(* are unique across rooms.  A sync batch carries, in the room's order,     *)
(* events that came after the ones the previous batches carried (a limited  *)
(* timeline may skip some).  room_messages and room_get_event return events *)
(* whether or not a batch has carried them already.                         *)

Rooms == {"r1", "r2"}
EventIds == {"a1", "a2", "a3", "b1"}
NoneId == "None"
SelfUser == "@me"

event_room(e) == IF e \in {"a1", "a2", "a3"} THEN "r1" ELSE "r2"
event_sender(e) == IF e = "a2" THEN SelfUser ELSE "@peer"
event_reply_to(e) == IF e = "a2" THEN "a1" ELSE NoneId
event_ts(e) == IF e \in {"a2", "a3"} THEN 2 ELSE 1
\* content.msgtype and content.body: a1 is an image, the others are text
event_msgtype(e) == IF e = "a1" THEN "m.image" ELSE "m.text"
event_body(e) == "body of " \o e

MessageEvent(e) ==
    [type |-> "m.room.message", event_id |-> e, sender |-> event_sender(e),
     reply_to |-> event_reply_to(e), server_timestamp |-> event_ts(e),
     msgtype |-> event_msgtype(e), voice |-> "absent", body |-> event_body(e),
     redacts |-> NoneId]
\* The message each room's redaction event redacts: the room's first
redacted_in(r) == IF r = "r1" THEN "a1" ELSE "b1"
RedactionEvent(r) ==
    [type |-> "m.room.redaction", event_id |-> "redact-" \o r, sender |-> "@peer",
     reply_to |-> NoneId, server_timestamp |-> 2,
     msgtype |-> NoneId, voice |-> "absent", body |-> NoneId,
     redacts |-> redacted_in(r)]

\* The room's events, oldest first
RoomHistory(r) ==
    IF r = "r1"
    THEN <<MessageEvent("a1"), MessageEvent("a2"), RedactionEvent(r), MessageEvent("a3")>>
    ELSE <<MessageEvent("b1"), RedactionEvent(r)>>

Range(s) == {s[i] : i \in DOMAIN s}
RoomMessages(r) == {ev \in Range(RoomHistory(r)) : ev.type = "m.room.message"}
TimelineEvents(r) == Range(RoomHistory(r))
Position(r, ev) ==
    CHOOSE k \in DOMAIN RoomHistory(r) : RoomHistory(r)[k].event_id = ev.event_id
InRoomOrder(r, s) ==
    \A i, j \in 1..Len(s) : i < j => Position(r, s[i]) < Position(r, s[j])

SeqsUpTo(S, n) == UNION {[1..k -> S] : k \in 0..n}


Reverse(s) == [i \in 1..Len(s) |-> s[Len(s) + 1 - i]]
\* dict[k] = v and dict.pop(k, None)
Put(f, k, v) == [x \in DOMAIN f \cup {k} |-> IF x = k THEN v ELSE f[x]]
Pop(f, k) == [x \in DOMAIN f \ {k} |-> f[x]]

----------------------------------------------------------------------------
(* state.py: RoomSnapshot, MessageRecord, MessageCache *)

\* RoomSnapshot as _ensure_snapshot builds it; last_event_ts 0 stands for None
\* (its only reader takes "last_event_ts or 0").
\* Room ids the homeserver can name.  Rooms have message history; the id in
\* JoinedOnly is a joined room that only ever appears without timeline events.
JoinedOnly == {"r3"}
RoomIds == Rooms \cup JoinedOnly

\* hashlib.sha1(room_id).hexdigest(), as <<first 16 hex digits, the other 24>>.
\* Digests of different ids differ; r1 and r3 stand for two ids whose digests
\* agree in the first 16 digits (there are more room ids than 16-digit prefixes).
sha1_hexdigest(room_id) ==
    CASE room_id = "r1" -> <<"5c1d", "e0">>
      [] room_id = "r2" -> <<"9ab2", "77">>
      [] room_id = "r3" -> <<"5c1d", "3f">>

\* utils.contact_id_from_room: digest[:16]
contact_id_from_room(room_id) == sha1_hexdigest(room_id)[1]

\* _ensure_snapshot, lines 584-588: r1 is a direct chat, the others are groups
room_is_group(room_id) == room_id # "r1"

\* _ensure_snapshot, lines 583-585: the room's display name and its members
\* (room.users) as the client knows them when the snapshot is made.
room_name(room_id) ==
    CASE room_id = "r1" -> "bo" [] room_id = "r2" -> "Al" [] room_id = "r3" -> "cy"
room_users(room_id) ==
    CASE room_id = "r1" -> <<SelfUser, "@peer">>
      [] room_id = "r2" -> <<"@peer", SelfUser, "@Zed">>
      [] room_id = "r3" -> <<"@Zed", SelfUser, "@peer">>

NewSnapshot(room_id) ==
    [room_id |-> room_id, contact_id |-> contact_id_from_room(room_id),
     is_group |-> room_is_group(room_id),
     name |-> room_name(room_id), participants |-> room_users(room_id),
     last_event_ts |-> 0, last_message_id |-> NoneId, unread_count |-> 0]

MessageRecord(event_id, room_id, payload) ==
    [event_id |-> event_id, room_id |-> room_id, payload |-> payload]

\* A MessageCache value: the per-room deques, the global index, and (history)
\* the records popped by the eviction loop so far in the current operation.
EmptyCache == [cache |-> [r \in Rooms |-> <<>>], index |-> <<>>, evicted |-> <<>>]

\* Variant: the eviction loop pops from the right (pop() for popleft())
RECURSIVE EvictNewest(_, _)
EvictNewest(mc, room_id) ==
    IF Len(mc.cache[room_id]) > max_messages_per_room
    THEN LET removed == mc.cache[room_id][Len(mc.cache[room_id])]
         IN EvictNewest([cache |-> [mc.cache EXCEPT
                                       ![room_id] = SubSeq(@, 1, Len(@) - 1)],
                         index |-> Pop(mc.index, removed.event_id),
                         evicted |-> Append(mc.evicted, removed)],
                        room_id)
    ELSE mc

\* Variant: add without the eviction loop
add_without_eviction(mc, record) ==
    [cache |-> [mc.cache EXCEPT ![record.room_id] = Append(@, record)],
     index |-> Put(mc.index, record.event_id, record),
     evicted |-> mc.evicted]

\* MessageCache.add, lines 45-47: while len(room_deque) > self._max: popleft
RECURSIVE EvictOverflow(_, _)
EvictOverflow(mc, room_id) ==
    IF Len(mc.cache[room_id]) > max_messages_per_room
    THEN LET removed == Head(mc.cache[room_id])
         IN EvictOverflow([cache |-> [mc.cache EXCEPT ![room_id] = Tail(@)],
                           index |-> Pop(mc.index, removed.event_id),
                           evicted |-> Append(mc.evicted, removed)],
                          room_id)
    ELSE mc

MessageCache_add(mc, record) ==
    EvictOverflow([cache |-> [mc.cache EXCEPT ![record.room_id] = Append(@, record)],
                   index |-> Put(mc.index, record.event_id, record),
                   evicted |-> mc.evicted],
                  record.room_id)

\* Variant: clear_room pops the deque and leaves the index alone
clear_room_keeping_index(mc, room_id) ==
    [cache |-> [mc.cache EXCEPT ![room_id] = <<>>],
     index |-> mc.index,
     evicted |-> mc.evicted]

\* MessageCache.clear_room: pop the deque, pop each of its ids from the index
RECURSIVE PopAll(_, _)
PopAll(ix, records) ==
    IF records = <<>> THEN ix
    ELSE PopAll(Pop(ix, Head(records).event_id), Tail(records))

MessageCache_clear_room(mc, room_id) ==
    [cache |-> [mc.cache EXCEPT ![room_id] = <<>>],
     index |-> PopAll(mc.index, mc.cache[room_id]),
     evicted |-> mc.evicted]

----------------------------------------------------------------------------
(* matrix_bridge.py: translation and ingestion *)

\* MatrixBridge._convert_message: the fields of the payload the model reads.
\* The reply target is looked up in the index at translation time.
\* _convert_message, lines 722-724: the reply target is found by get_message
quoted_found(ix, event) == event.reply_to # NoneId /\ event.reply_to \in DOMAIN ix

\* content.msgtype as events carry it (NoneId: the key is missing), and the
\* value of content["org.matrix.msc2516.voice"]: no such key, the empty
\* object the voice-message proposal puts there, or true
MsgTypes ==
    {NoneId, "m.text", "m.notice", "m.emote", "m.image", "m.video", "m.file",
     "m.audio", "m.location", "m.sticker", "m.custom"}
VoiceFlags == {"absent", "empty_object", "true"}

\* Python's truth value of content.get("org.matrix.msc2516.voice"): None and
\* {} are false
truthy(voice) == voice = "true"

\* MatrixBridge._map_msgtype; _convert_message line 685 reads a missing
\* msgtype as m.text
map_msgtype(msgtype, voice) ==
    LET mt == IF msgtype = NoneId THEN "m.text" ELSE msgtype
    IN CASE mt \in {"m.text", "m.notice", "m.emote"} -> "chat"
         [] mt = "m.image" -> "image"
         [] mt = "m.video" -> "video"
         [] mt = "m.file" -> "document"
         [] mt = "m.audio" -> IF truthy(voice) THEN "ptt" ELSE "audio"
         [] mt = "m.location" -> "location"
         [] mt = "m.sticker" -> "sticker"
         [] OTHER -> "chat"

\* _data.quotedMsg of a payload without a quote (None)
NoQuote == [body |-> NoneId, type |-> NoneId]

convert_message(ix, event) ==
    LET from_me == event.sender = SelfUser
        quoted == quoted_found(ix, event)
    IN [id |-> event.event_id,
        type |-> map_msgtype(event.msgtype, event.voice),
        body |-> event.body,
        fromMe |-> from_me,
        ack |-> IF from_me THEN 4 ELSE 2,
        hasQuotedMsg |-> quoted,
        quotedMsg |-> IF quoted
                      THEN [body |-> ix[event.reply_to].payload.body,
                            type |-> ix[event.reply_to].payload.type]
                      ELSE NoQuote,
        quotedStanzaID |-> IF quoted THEN ix[event.reply_to].payload.id ELSE NoneId]

\* Variant: the timeline is walked from its newest event to its oldest
RECURSIVE process_newest_first(_, _, _)
process_newest_first(st, room_id, events) ==
    IF events = <<>> THEN st
    ELSE LET event == events[Len(events)]
             rest == SubSeq(events, 1, Len(events) - 1)
         IN IF event.type = "m.room.message"
            THEN LET record == MessageRecord(event.event_id, room_id,
                                             convert_message(st.mc.index, event))
                 IN process_newest_first([mc |-> MessageCache_add(st.mc, record),
                                          last_message_id |-> record.event_id],
                                         room_id, rest)
            ELSE process_newest_first(st, room_id, rest)

\* MatrixBridge._process_timeline, folded over the events in order.  st is
\* [mc, last_message_id]: the cache and the snapshot's pointer.
RECURSIVE process_timeline(_, _, _)
process_timeline(st, room_id, events) ==
    IF events = <<>> THEN st
    ELSE LET event == Head(events)
         IN IF event.type = "m.room.message"
            THEN LET record == MessageRecord(event.event_id, room_id,
                                             convert_message(st.mc.index, event))
                 IN process_timeline([mc |-> MessageCache_add(st.mc, record),
                                      last_message_id |-> record.event_id],
                                     room_id, Tail(events))
            ELSE process_timeline(st, room_id, Tail(events))

\* MatrixBridge.fetch_messages, lines 205-217: every event of the chunk is
\* converted and added, oldest first; the snapshot is not written.
RECURSIVE add_all(_, _, _)
add_all(st, room_id, events) ==
    IF events = <<>> THEN st
    ELSE LET record == MessageRecord(Head(events).event_id, room_id,
                                     convert_message(st.mc.index, Head(events)))
         IN add_all([mc |-> MessageCache_add(st.mc, record),
                     last_message_id |-> st.last_message_id],
                    room_id, Tail(events))

\* Variant: every message is acknowledged as delivered
ack_delivered_only(converted) == 2

\* _process_timeline, line 640: the ack level of the ACK_MESSAGE broadcast
broadcast_ack(converted) == IF converted.fromMe THEN 4 ELSE 2

\* Variant: a redaction is not announced
redaction_silent(event) == <<>>

\* _process_timeline, lines 645-648: what a redaction event dispatches
redaction_broadcasts(event) == <<[response |-> "REVOKE_MESSAGE"]>>

\* The payloads _process_timeline hands to notifier.broadcast for one event.
\* (The payload fields read here do not depend on the reply lookup.)
event_broadcasts(room_id, event) ==
    IF event.type = "m.room.message"
    THEN LET converted == convert_message(<<>>, event)
         IN <<[response |-> "NEW_MESSAGE_NOTI",
               body |-> [msgBody |-> converted.body,
                         from |-> contact_id_from_room(room_id),
                         type |-> converted.type]],
              [response |-> "ACK_MESSAGE",
               body |-> [from |-> contact_id_from_room(room_id),
                         msgId |-> converted.id,
                         ack |-> broadcast_ack(converted)]]>>
    ELSE IF event.type = "m.room.redaction"
    THEN redaction_broadcasts(event)
    ELSE <<>>

\* create_task calls of _process_timeline over a timeline, in order
RECURSIVE timeline_broadcasts(_, _)
timeline_broadcasts(room_id, events) ==
    IF events = <<>> THEN <<>>
    ELSE event_broadcasts(room_id, Head(events))
            \o timeline_broadcasts(room_id, Tail(events))

CurrentCache == [cache |-> cache, index |-> index, evicted |-> <<>>]

----------------------------------------------------------------------------
(* matrix_bridge.py: start-up and the steady loop *)

\* Variant: _ready.set() inside the try block, reached on success only
ready_only_on_success(outcome) == outcome = "ok"

\* _initial_sync: whether _ready.set() is reached when client.sync ended in
\* outcome (a SyncResponse, a SyncError, a raised exception).
initial_sync_sets_ready(outcome) == TRUE

\* start(): whether create_task(_sync_forever()) is reached after _initial_sync.
start_creates_task(outcome) == TRUE

\* _startup: notifier.start() has returned and bridge.start() awaits the
\* initial sync.  Startup comes before shutdown.
Start ==
    /\ start_pc = "idle"
    /\ stop_pc = "idle"
    /\ start_pc' = "initial_sync"
    /\ UNCHANGED <<room_order, dispatched, user_profiles, initial_result, ready, sync_task, sync_token, since, rooms, room_contact_map, cache,
                   index, socket_vars, life_vars, mute_vars>>

\* client.sync(full_state=True) ends; the rest of _initial_sync and of start()
\* runs without suspending.
InitialSyncDone(outcome) ==
    /\ start_pc = "initial_sync"
    /\ initial_result' = outcome
    /\ ready' = (ready \/ initial_sync_sets_ready(outcome))
    /\ sync_task' = IF start_creates_task(outcome) THEN "poll" ELSE sync_task
    /\ sync_token' = (outcome = "ok")
    /\ start_pc' = "returned"
    /\ UNCHANGED <<room_order, dispatched, user_profiles, since, rooms, room_contact_map, cache, index, socket_vars, life_vars, mute_vars>>

\* RoomDirectory.upsert, called for a room the directory does not hold: the
\* dict gets the room id as its newest key
ensure_room_order(room_id) ==
    IF room_id \in DOMAIN rooms THEN room_order ELSE Append(room_order, room_id)

\* Variant: a batch always starts the room from a new snapshot
fresh_snapshot(room_id) == NewSnapshot(room_id)

\* _ensure_snapshot
ensure_snapshot(room_id) ==
    IF room_id \in DOMAIN rooms THEN rooms[room_id] ELSE NewSnapshot(room_id)

\* _ensure_snapshot, line 600: a new snapshot's contact id is pointed at its room
ensure_contact_map(room_id) ==
    IF room_id \in DOMAIN rooms THEN room_contact_map
    ELSE Put(room_contact_map, contact_id_from_room(room_id), room_id)

\* Most state events in the state section of a batch
MaxStateEvents == 2

\* State events a batch can carry: membership events, with a display name or
\* without, and one of another type
MemberUsers == {"@peer", "@new", "@Zed"}
DisplayNames == {NoneId, "Pat"}
MemberEvent(user_id, displayname) ==
    [type |-> "m.room.member", state_key |-> user_id, displayname |-> displayname]
TopicEvent == [type |-> "m.room.topic", state_key |-> "", displayname |-> NoneId]
StateEvents ==
    {MemberEvent(u, d) : u \in MemberUsers, d \in DisplayNames} \cup {TopicEvent}

\* Variant: the user is appended whether listed or not
append_always(participants, user_id) == Append(participants, user_id)

\* _update_membership, lines 680-681
append_participant(participants, user_id) ==
    IF \E i \in DOMAIN participants : participants[i] = user_id
    THEN participants ELSE Append(participants, user_id)

\* _update_membership, lines 669-676: display_name = displayname or user_id
member_profile(event) ==
    [display_name |-> IF event.displayname # NoneId THEN event.displayname
                      ELSE event.state_key]

\* _update_membership over the state events in order.  st is
\* [participants, user_profiles]: the snapshot's list and the profile table.
RECURSIVE update_membership(_, _)
update_membership(st, events) ==
    IF events = <<>> THEN st
    ELSE LET event == Head(events)
         IN IF event.type # "m.room.member"
            THEN update_membership(st, Tail(events))
            ELSE update_membership(
                    [participants |-> append_participant(st.participants, event.state_key),
                     user_profiles |-> Put(st.user_profiles, event.state_key,
                                           member_profile(event))],
                    Tail(events))

\* Variant: a response is handed to the callback registered at construction
\* as soon as there is one, and the callback does not wait
on_sync_unguarded == TRUE

\* _on_sync goes on to the rooms of a response: sync_forever, run by the task
\* start() creates, has delivered it, and _ready.wait() (line 562) has returned
on_sync_proceeds == sync_task = "poll" /\ ready

\* One poll of sync_forever returns a batch whose joined room room_id carries
\* an optional notification count, a timeline and state events; _on_sync
\* processes it before the next poll (it waits for _ready first, which is set
\* by then).
sync_batch(room_id, has_count, count, timeline, state_events) ==
    /\ on_sync_proceeds
    /\ ~cancel_pending
    /\ LET snapshot == ensure_snapshot(room_id)
           st == process_timeline([mc |-> CurrentCache,
                                   last_message_id |-> snapshot.last_message_id],
                                  room_id, timeline)
           members == update_membership([participants |-> snapshot.participants,
                                         user_profiles |-> user_profiles],
                                        state_events)
       IN /\ rooms' = Put(rooms, room_id,
                 [snapshot EXCEPT
                     !.unread_count = IF has_count THEN count ELSE @,
                     !.last_message_id = st.last_message_id,
                     !.participants = members.participants,
                     !.last_event_ts = IF timeline # <<>>
                                       THEN timeline[Len(timeline)].server_timestamp
                                       ELSE @])
          /\ cache' = st.mc.cache
          /\ index' = st.mc.index
          /\ user_profiles' = members.user_profiles
    /\ room_contact_map' = ensure_contact_map(room_id)
    /\ room_order' = ensure_room_order(room_id)
    /\ sync_token' = TRUE
    /\ since' = IF timeline # <<>>
                THEN [since EXCEPT ![room_id] = Position(room_id, timeline[Len(timeline)])]
                ELSE since
    /\ UNCHANGED <<start_pc, initial_result, ready, sync_task, socket_vars, life_vars, mute_vars>>

\* A batch without state events
on_sync(room_id, has_count, count, timeline) ==
    sync_batch(room_id, has_count, count, timeline, <<>>)

\* Most ephemeral events in a batch
MaxEphemeral == 2

\* Ephemeral events a batch can carry: typing notices with the users typing,
\* and one of another type
TypingEvent(user_ids) == [type |-> "m.typing", user_ids |-> user_ids]
ReceiptEvent == [type |-> "m.receipt", user_ids |-> <<>>]
EphemeralEvents ==
    {TypingEvent(<<>>), TypingEvent(<<"@peer", "@Zed">>), ReceiptEvent}

EphemeralBatches == SeqsUpTo(EphemeralEvents, MaxEphemeral)

\* Variant: every typing notice is reported as composing
typing_status_composing(typing_users) == "composing"

\* _handle_ephemeral, line 653
typing_status(typing_users) == IF typing_users # <<>> THEN "composing" ELSE "paused"

\* _handle_ephemeral: the payloads handed to notifier.broadcast for one event
handle_ephemeral(room_id, event) ==
    IF event.type = "m.typing"
    THEN <<[response |-> "CONTACT_CHANGE_STATE",
            body |-> [status |-> typing_status(event.user_ids),
                      from |-> contact_id_from_room(room_id)]]>>
    ELSE <<>>

RECURSIVE ephemeral_broadcasts(_, _)
ephemeral_broadcasts(room_id, events) ==
    IF events = <<>> THEN <<>>
    ELSE handle_ephemeral(room_id, Head(events))
            \o ephemeral_broadcasts(room_id, Tail(events))

\* _on_sync for a batch with ephemeral events, with the broadcasts created on
\* the way: the timeline's first, then the ephemeral events'
OnSyncEphemeral(room_id, timeline, ephemeral_events) ==
    /\ sync_batch(room_id, FALSE, 0, timeline, <<>>)
    /\ dispatched' = timeline_broadcasts(room_id, timeline)
                        \o ephemeral_broadcasts(room_id, ephemeral_events)

\* _on_sync for a batch whose timeline is the message event e of the room,
\* with the content type and the voice flag its sender gave it
WithContent(e, msgtype, voice) ==
    [MessageEvent(e) EXCEPT !.msgtype = msgtype, !.voice = voice]
OnSyncContent(e, msgtype, voice) ==
    /\ Position(event_room(e), MessageEvent(e)) > since[event_room(e)]
    /\ sync_batch(event_room(e), FALSE, 0, <<WithContent(e, msgtype, voice)>>, <<>>)
    /\ UNCHANGED dispatched

\* _on_sync for a batch with state events
OnSyncState(room_id, timeline, state_events) ==
    /\ sync_batch(room_id, FALSE, 0, timeline, state_events)
    /\ UNCHANGED dispatched

\* _on_sync where the broadcasts are left to the socket server's model
OnSync(room_id, has_count, count, timeline) ==
    /\ on_sync(room_id, has_count, count, timeline)
    /\ UNCHANGED dispatched

\* _on_sync with the broadcasts _process_timeline creates on the way
OnSyncDispatch(room_id, has_count, count, timeline) ==
    /\ on_sync(room_id, has_count, count, timeline)
    /\ dispatched' = timeline_broadcasts(room_id, timeline)

\* Variant: the except clause names the transport's errors only
catches_poll_errors_only(failure) == failure = "poll"

\* _sync_forever, line 557: whether "except Exception" catches what the poll
\* ("poll") or the response callback ("processing") raised
except_catches(failure) == TRUE

\* Where the loop task is after a failure: asleep for the fixed delay, or ended
after_failure(failure) == IF except_catches(failure) THEN "backoff" ELSE "ended"

\* sync_forever raises: _sync_forever logs and sleeps 5 seconds
PollFail ==
    /\ sync_task = "poll"
    /\ ~cancel_pending
    /\ sync_task' = after_failure("poll")
    /\ UNCHANGED <<room_order, dispatched, user_profiles, start_pc, initial_result, ready, sync_token, since, rooms, room_contact_map, cache,
                   index, socket_vars, life_vars, mute_vars>>

\* _on_sync raises at the event after the first k of the timeline: the k are
\* applied, the snapshot's last_event_ts is not written, the batch is not
\* delivered again (the token was stored when the response arrived), and the
\* exception leaves sync_forever.
OnSyncRaises(room_id, timeline, k) ==
    /\ on_sync_proceeds
    /\ ~cancel_pending
    /\ k < Len(timeline)
    /\ LET snapshot == ensure_snapshot(room_id)
           st == process_timeline([mc |-> CurrentCache,
                                   last_message_id |-> snapshot.last_message_id],
                                  room_id, SubSeq(timeline, 1, k))
       IN /\ rooms' = Put(rooms, room_id,
                 [snapshot EXCEPT !.last_message_id = st.last_message_id])
          /\ cache' = st.mc.cache
          /\ index' = st.mc.index
    /\ room_contact_map' = ensure_contact_map(room_id)
    /\ room_order' = ensure_room_order(room_id)
    /\ sync_token' = TRUE
    /\ since' = [since EXCEPT ![room_id] = Position(room_id, timeline[Len(timeline)])]
    /\ sync_task' = after_failure("processing")
    /\ UNCHANGED <<dispatched, user_profiles, start_pc, initial_result, ready, socket_vars, life_vars, mute_vars>>

BackoffDone ==
    /\ sync_task = "backoff"
    /\ ~cancel_pending
    /\ sync_task' = "poll"
    /\ UNCHANGED <<room_order, dispatched, user_profiles, start_pc, initial_result, ready, sync_token, since, rooms, room_contact_map, cache,
                   index, socket_vars, life_vars, mute_vars>>

----------------------------------------------------------------------------
(* Shutdown: http_api._shutdown = bridge.stop(), then notifier.stop() *)

\* What a cancellation that reaches the task inside client.sync_forever can
\* lead to: the CancelledError leaves sync_forever ("raised"), or sync_forever
\* catches it to cancel its own requests and returns ("absorbed").
CancelOutcomes == {"raised", "absorbed"}

\* stop(), lines 138-139: with a loop task, cancel it and await it; the call
\* comes after start() has returned, or with start() never called.
StopBegin ==
    /\ stop_pc = "idle"
    /\ start_pc \in {"idle", "returned"}
    /\ IF sync_task = "none"
       THEN stop_pc' = "close_client" /\ UNCHANGED cancel_pending
       ELSE stop_pc' = "await_task" /\ cancel_pending' = TRUE
    /\ UNCHANGED <<client_closed, http_closed, sockets_closed,
                   bridge_vars, socket_vars, mute_vars>>

\* The loop task runs next and finds the cancellation.  Asleep in the backoff
\* the CancelledError passes "except Exception" and ends the task.  Inside
\* sync_forever it ends the task when it is raised to _sync_forever; when
\* sync_forever returns instead, "while True" polls again.
CancelDelivered(outcome) ==
    /\ cancel_pending
    /\ sync_task \in {"poll", "backoff"}
    /\ sync_task' = IF sync_task = "poll" /\ outcome = "absorbed"
                    THEN "poll" ELSE "cancelled"
    /\ cancel_pending' = FALSE
    /\ UNCHANGED <<room_order, dispatched, user_profiles, start_pc, initial_result, ready, sync_token, since, rooms, room_contact_map, cache,
                   index, stop_pc, client_closed, http_closed, sockets_closed,
                   socket_vars, mute_vars>>

\* "await self._sync_task" returns once the task has ended
StopTaskAwaited ==
    /\ stop_pc = "await_task"
    /\ sync_task \in {"cancelled", "ended"}
    /\ stop_pc' = "close_client"
    /\ UNCHANGED <<cancel_pending, client_closed, http_closed, sockets_closed,
                   bridge_vars, socket_vars, mute_vars>>

\* client.close() returns
ClientClosed ==
    /\ stop_pc = "close_client"
    /\ client_closed' = TRUE
    /\ stop_pc' = "close_http"
    /\ UNCHANGED <<cancel_pending, http_closed, sockets_closed,
                   bridge_vars, socket_vars, mute_vars>>

\* _http.aclose() returns and bridge.stop() with it; _shutdown goes on to
\* notifier.stop()
HttpClosed ==
    /\ stop_pc = "close_http"
    /\ http_closed' = TRUE
    /\ stop_pc' = "notifier_stop"
    /\ UNCHANGED <<cancel_pending, client_closed, sockets_closed,
                   bridge_vars, socket_vars, mute_vars>>

----------------------------------------------------------------------------
(* Request-layer operations that reach the cache *)

\* fetch_messages(snapshot): the snapshot comes from get_room_by_contact
FetchMessages(room_id, chunk) ==
    /\ ready
    /\ room_id \in DOMAIN rooms
    /\ sync_token
    /\ LET st == add_all([mc |-> CurrentCache, last_message_id |-> NoneId],
                         room_id, Reverse(chunk))
       IN /\ cache' = st.mc.cache
          /\ index' = st.mc.index
    /\ UNCHANGED <<room_order, dispatched, user_profiles, start_pc, initial_result, ready, sync_task, sync_token, since, rooms, room_contact_map,
                   socket_vars, life_vars, mute_vars>>

\* get_message_record(event_id): a cached record is returned as is; otherwise
\* the event is asked of every known room and added to the room that has it.
GetMessageRecord(event_id) ==
    /\ event_id \notin DOMAIN index
    /\ event_room(event_id) \in DOMAIN rooms
    /\ LET room_id == event_room(event_id)
           record == MessageRecord(event_id, room_id,
                                   convert_message(index, MessageEvent(event_id)))
           mc == MessageCache_add(CurrentCache, record)
       IN /\ cache' = mc.cache
          /\ index' = mc.index
    /\ UNCHANGED <<room_order, dispatched, user_profiles, start_pc, initial_result, ready, sync_task, sync_token, since, rooms, room_contact_map,
                   socket_vars, life_vars, mute_vars>>

\* Most unread notifications a sync response reports for a room
MaxUnread == 1

\* RoomDirectory.get / by_contact_id hand out the RoomSnapshot object that the
\* directory holds (state.py 97-98, 103-107): the caller's value is that
\* object, named here by its key, and not a copy of its fields.
RoomDirectory_get(room_id) == [held_by_directory |-> TRUE, room_id |-> room_id]

\* snapshot.unread_count = value, by the holder of a value a read returned
assign_unread_count(snapshot, value) ==
    IF snapshot.held_by_directory
    THEN [rooms EXCEPT ![snapshot.room_id].unread_count = value]
    ELSE rooms

\* mark_read(snapshot): nothing without a last message; otherwise the read
\* markers are sent, an error response raises, and on success the snapshot's
\* unread count is reset.
\* Variant: the unread count is reset before the response is looked at
mark_read_before_response(room_id, outcome) ==
    LET snapshot == RoomDirectory_get(room_id)
        called == rooms[room_id].last_message_id # NoneId
    IN [called |-> called,
        raised |-> called /\ outcome = "error",
        rooms |-> IF called THEN assign_unread_count(snapshot, 0) ELSE rooms]

\* mark_read, lines 292-300: whether client.room_read_markers is called,
\* whether RuntimeError is raised, and the directory afterwards
mark_read(room_id, outcome) ==
    LET snapshot == RoomDirectory_get(room_id)
        called == rooms[room_id].last_message_id # NoneId
    IN [called |-> called,
        raised |-> called /\ outcome = "error",
        rooms |-> IF called /\ outcome = "ok"
                  THEN assign_unread_count(snapshot, 0) ELSE rooms]

MarkRead(room_id, outcome) ==
    /\ ready
    /\ room_id \in DOMAIN rooms
    /\ rooms' = mark_read(room_id, outcome).rooms
    /\ UNCHANGED <<room_order, dispatched, user_profiles, start_pc, initial_result, ready, sync_task, sync_token, since, cache,
                   index, room_contact_map, socket_vars, life_vars, mute_vars>>

\* get_chats / get_contacts / get_groups: build their answer from
\* state.all() and write nothing
GetChats ==
    /\ ready
    /\ UNCHANGED vars

\* RoomDirectory.all(): the snapshots in the dict's order
state_all == [i \in DOMAIN room_order |-> rooms[room_order[i]]]

\* _snapshot_to_chat: the fields of the chat the model reads
snapshot_to_chat(snapshot) ==
    [id |-> snapshot.contact_id, room_id |-> snapshot.room_id,
     isGroup |-> snapshot.is_group, timestamp |-> snapshot.last_event_ts,
     unreadCount |-> snapshot.unread_count]

\* list.sort(key=timestamp, reverse=True): descending and stable.  insert_desc
\* puts a chat behind everything that is not older than it.
RECURSIVE insert_desc(_, _)
insert_desc(sorted, chat) ==
    IF sorted = <<>> THEN <<chat>>
    ELSE IF Head(sorted).timestamp >= chat.timestamp
         THEN <<Head(sorted)>> \o insert_desc(Tail(sorted), chat)
         ELSE <<chat>> \o sorted
RECURSIVE sort_desc(_)
sort_desc(chats) ==
    IF chats = <<>> THEN <<>>
    ELSE insert_desc(sort_desc(SubSeq(chats, 1, Len(chats) - 1)), chats[Len(chats)])

\* get_chats: the groups are collected in the directory's order while the
\* chats are; only the chat list is sorted afterwards
get_chats ==
    LET chats == [i \in DOMAIN state_all |-> snapshot_to_chat(state_all[i])]
    IN [chatList |-> sort_desc(chats),
        groupList |-> SelectSeq(chats, LAMBDA chat : chat.isGroup)]

\* get_groups: a comprehension over state.all()
get_groups ==
    [groupList |-> SelectSeq([i \in DOMAIN state_all |-> snapshot_to_chat(state_all[i])],
                             LAMBDA chat : chat.isGroup)]

\* hashlib.md5(user_id).hexdigest(), as <<first 16 hex digits, the rest>>
md5_hexdigest(user_id) ==
    CASE user_id = SelfUser -> <<"0f3a", "11">>
      [] user_id = "@peer" -> <<"c7d0", "52">>
      [] user_id = "@Zed" -> <<"41be", "9c">>
      [] user_id = "@new" -> <<"e2a7", "d4">>

\* utils.contact_id_from_user: digest[:16]
contact_id_from_user(user_id) == md5_hexdigest(user_id)[1]

\* The code points of the names of the model
codes(name) ==
    CASE name = "You" -> <<89, 111, 117>>
      [] name = "bo" -> <<98, 111>>
      [] name = "Al" -> <<65, 108>>
      [] name = "cy" -> <<99, 121>>
      [] name = "@peer" -> <<64, 112, 101, 101, 114>>
      [] name = "@Zed" -> <<64, 90, 101, 100>>
      [] name = "@new" -> <<64, 110, 101, 119>>
      [] name = "Pat" -> <<80, 97, 116>>
      [] name = SelfUser -> <<64, 109, 101>>

\* str.lower() on code points: A-Z become a-z
lower(cs) == [i \in DOMAIN cs |-> IF cs[i] \in 65..90 THEN cs[i] + 32 ELSE cs[i]]

\* Python's order of strings: by the first code point that differs, a proper
\* prefix first
str_le(a, b) ==
    \/ \E k \in DOMAIN a \cap DOMAIN b :
          /\ a[k] < b[k]
          /\ \A i \in 1..(k - 1) : a[i] = b[i]
    \/ /\ Len(a) <= Len(b)
       /\ \A i \in DOMAIN a : a[i] = b[i]

\* _build_self_contact, _snapshot_to_contact, _participant_to_contact: the
\* fields the model reads.  A participant without a profile is named by its
\* user id.
build_self_contact ==
    [number |-> contact_id_from_user(SelfUser), name |-> "You", isMe |-> TRUE]
snapshot_to_contact(snapshot) ==
    [number |-> snapshot.contact_id, name |-> snapshot.name, isMe |-> FALSE]
participant_to_contact(user_id) ==
    [number |-> contact_id_from_user(user_id),
     name |-> IF user_id \in DOMAIN user_profiles
              THEN user_profiles[user_id].display_name ELSE user_id,
     isMe |-> user_id = SelfUser]

\* get_contacts, lines 170-172 and 175-177: append unless the number was seen
append_unseen(contacts, contact) ==
    IF \E i \in DOMAIN contacts : contacts[i].number = contact.number
    THEN contacts ELSE Append(contacts, contact)

\* get_contacts, lines 173-177: the participants of one snapshot
RECURSIVE add_participants(_, _)
add_participants(contacts, participants) ==
    IF participants = <<>> THEN contacts
    ELSE add_participants(append_unseen(contacts, participant_to_contact(Head(participants))),
                          Tail(participants))

\* get_contacts, lines 167-177: the loop over state.all()
RECURSIVE collect_contacts(_, _)
collect_contacts(contacts, snapshots) ==
    IF snapshots = <<>> THEN contacts
    ELSE LET snapshot == Head(snapshots)
             with_room == IF ~snapshot.is_group
                          THEN append_unseen(contacts, snapshot_to_contact(snapshot))
                          ELSE contacts
         IN collect_contacts(add_participants(with_room, snapshot.participants),
                             Tail(snapshots))

\* Variant: the names are compared as they are written
name_key_as_written(contact) == codes(contact.name)

\* get_contacts, line 178: the sort key
name_key(contact) == lower(codes(contact.name))

\* sorted(contacts, key=...): ascending and stable
RECURSIVE insert_by_name(_, _)
insert_by_name(sorted, contact) ==
    IF sorted = <<>> THEN <<contact>>
    ELSE IF str_le(name_key(Head(sorted)), name_key(contact))
         THEN <<Head(sorted)>> \o insert_by_name(Tail(sorted), contact)
         ELSE <<contact>> \o sorted
RECURSIVE sorted_by_name(_)
sorted_by_name(contacts) ==
    IF contacts = <<>> THEN <<>>
    ELSE insert_by_name(sorted_by_name(SubSeq(contacts, 1, Len(contacts) - 1)),
                        contacts[Len(contacts)])

get_contacts ==
    [contactList |-> sorted_by_name(collect_contacts(<<build_self_contact>>, state_all))]

\* leave_room(snapshot), reached through /leaveGroup: the homeserver is asked
\* to leave; nothing held by the bridge is written
LeaveRoom(room_id) ==
    /\ ready
    /\ room_id \in DOMAIN rooms
    /\ UNCHANGED vars

\* delete_chat_history(snapshot), reached through /deleteChat
delete_chat_history(room_id) == MessageCache_clear_room(CurrentCache, room_id)

DeleteChat(room_id) ==
    /\ ready
    /\ room_id \in DOMAIN rooms
    /\ LET mc == delete_chat_history(room_id)
       IN /\ cache' = mc.cache
          /\ index' = mc.index
    /\ UNCHANGED <<room_order, dispatched, user_profiles, start_pc, initial_result, ready, sync_task, sync_token, since, rooms, room_contact_map,
                   socket_vars, life_vars, mute_vars>>


----------------------------------------------------------------------------
(* NotificationSocketServer (socket_server.py) *)

\* Most broadcasts the ingestion path dispatches in a run.
MaxEmit == 2

Conns == {"c1", "c2"}
\* Connection names are arbitrary: c1 names the first peer to connect
ConnOrder(d, c) == d = "c1" /\ c = "c2"
\* What a peer can send: a matching auth payload; a JSON object with another
\* sender or token; bytes json.loads rejects (JSONDecodeError); bytes that
\* make _handle_payload raise something else (invalid UTF-8, JSON that is
\* not an object).
PayloadKinds == {"auth_ok", "auth_wrong", "garbage", "non_object"}

\* Task identities: a broadcast task per dispatch, a handler task per connection
NoTask == <<"none", "none">>
B(t) == <<"b", t>>
H(c) == <<"h", c>>
Frame(kind, n) == [kind |-> kind, n |-> n]
BroadcastTasks == 1..nemitted

SocketInit ==
    /\ clients = {}
    /\ authenticated = [c \in Conns |-> FALSE]
    /\ hpc = [c \in Conns |-> "absent"]
    /\ net = [c \in Conns |-> "up"]
    /\ sent = [c \in Conns |-> <<>>]
    /\ first_payload = [c \in Conns |-> "none"]
    /\ inbuf = [c \in Conns |-> "none"]
    /\ closed = [c \in Conns |-> FALSE]
    /\ lock_holder = NoTask
    /\ lock_waiters = <<>>
    /\ run_queue = <<>>
    /\ nemitted = 0
    /\ bpc = <<>>
    /\ btodo = <<>>
    /\ bcur = <<>>
    /\ bfailed = <<>>
    /\ connected_at = [c \in Conns |-> 0]
    /\ pending_at = [c \in Conns |-> {}]
    /\ auth_at = [c \in Conns |-> 0]

\* asyncio.Lock: release hands the lock to the longest-waiting task
ReleasedHolder == IF lock_waiters = <<>> THEN NoTask ELSE Head(lock_waiters)
ReleasedWaiters == IF lock_waiters = <<>> THEN <<>> ELSE Tail(lock_waiters)

\* _process_timeline / _handle_ephemeral: asyncio.create_task(notifier.broadcast(..)).
\* The caller does not wait; the task joins the loop's ready queue.
Emit ==
    /\ nemitted < MaxEmit
    /\ nemitted' = nemitted + 1
    /\ bpc' = Append(bpc, "created")
    /\ btodo' = Append(btodo, {})
    /\ bcur' = Append(bcur, NoneId)
    /\ bfailed' = Append(bfailed, {})
    /\ run_queue' = Append(run_queue, B(nemitted + 1))
    /\ UNCHANGED <<clients, authenticated, hpc, net, sent, first_payload, inbuf,
                   closed, lock_holder, lock_waiters, connected_at, pending_at, auth_at,
                   bridge_vars, life_vars, mute_vars>>

\* Variant: a broadcast writes to every registered client
is_recipient_any(x) == TRUE

\* broadcast, lines 49-50: clients that are not authenticated are skipped
is_recipient(x) == authenticated[x]

\* broadcast, lines 48-53, from a point where the task holds the lock and has
\* todo left to visit: clients that are not authenticated when visited are
\* skipped; the first authenticated one is written to and the task suspends
\* in drain(); with none left the lock is released.  A set is iterated in no
\* particular order.
Advance(t, todo) ==
    \/ \E c \in {x \in todo : is_recipient(x)} :
         \E skipped \in SUBSET {x \in todo : ~is_recipient(x)} :
            /\ sent' = [sent EXCEPT ![c] = Append(@, Frame("event", t))]
            /\ btodo' = [btodo EXCEPT ![t] = todo \ (skipped \cup {c})]
            /\ bcur' = [bcur EXCEPT ![t] = c]
            /\ bpc' = [bpc EXCEPT ![t] = "drain"]
            /\ lock_holder' = B(t)
            /\ lock_waiters' = lock_waiters
    \/ /\ \A x \in todo : ~is_recipient(x)
       /\ sent' = sent
       /\ btodo' = [btodo EXCEPT ![t] = {}]
       /\ bcur' = bcur
       /\ bpc' = [bpc EXCEPT ![t] = "done"]
       /\ lock_holder' = ReleasedHolder
       /\ lock_waiters' = ReleasedWaiters

\* A broadcast task's first step: tasks start in the order they were created.
BStart(t) ==
    /\ run_queue # <<>> /\ Head(run_queue) = B(t)
    /\ run_queue' = Tail(run_queue)
    /\ IF lock_holder = NoTask
       THEN Advance(t, clients)
       ELSE /\ bpc' = [bpc EXCEPT ![t] = "acquire"]
            /\ lock_waiters' = Append(lock_waiters, B(t))
            /\ UNCHANGED <<sent, btodo, bcur, lock_holder>>
    /\ UNCHANGED <<clients, authenticated, hpc, net, first_payload, inbuf,
                   closed, nemitted, bfailed, connected_at, pending_at, auth_at, bridge_vars, life_vars, mute_vars>>

\* The lock was handed to a waiting broadcast task: it snapshots the registry
BProceed(t) ==
    /\ bpc[t] = "acquire" /\ lock_holder = B(t)
    /\ Advance(t, clients)
    /\ UNCHANGED <<clients, authenticated, hpc, net, first_payload, inbuf,
                   closed, run_queue, nemitted, bfailed, connected_at, pending_at, auth_at,
                   bridge_vars, life_vars, mute_vars>>

\* drain() on the current client returns (the loop goes on) or raises: the
\* except clause awaits _drop_client, which asks for the lock the task holds.
BDrain(t) ==
    /\ bpc[t] = "drain"
    /\ \/ /\ net[bcur[t]] = "up"
          /\ Advance(t, btodo[t])
          /\ UNCHANGED bfailed
       \/ /\ net[bcur[t]] = "broken"
          /\ bfailed' = [bfailed EXCEPT ![t] = @ \cup {bcur[t]}]
          /\ bpc' = [bpc EXCEPT ![t] = "drop_wait"]
          /\ lock_waiters' = Append(lock_waiters, B(t))
          /\ UNCHANGED <<sent, btodo, bcur, lock_holder>>
    /\ UNCHANGED <<clients, authenticated, hpc, net, first_payload, inbuf,
                   closed, run_queue, nemitted, connected_at, pending_at, auth_at, bridge_vars, life_vars, mute_vars>>

\* A peer connects: start_server creates the _handle_client task
Connect(c) ==
    /\ hpc[c] = "absent"
    /\ \A d \in Conns : ConnOrder(d, c) => hpc[d] # "absent"
    /\ hpc' = [hpc EXCEPT ![c] = "created"]
    /\ run_queue' = Append(run_queue, H(c))
    /\ connected_at' = [connected_at EXCEPT ![c] = nemitted]
    /\ pending_at' = [pending_at EXCEPT ![c] = {t \in BroadcastTasks : bpc[t] # "done"}]
    /\ UNCHANGED <<clients, authenticated, net, sent, first_payload, inbuf,
                   closed, lock_holder, lock_waiters, nemitted, bpc, btodo, bcur,
                   bfailed, auth_at, bridge_vars, life_vars, mute_vars>>

\* Variant: the client is added to the registry without taking the lock
RegisterWithoutLock == TRUE

\* _handle_client line 63: the client is added at once only when the lock is free
CanRegister == lock_holder = NoTask

\* lines 64-66: add to the registry, write the greeting, suspend in drain()
Register(c) ==
    /\ clients' = clients \cup {c}
    /\ sent' = [sent EXCEPT ![c] = Append(@, Frame("greeting", 0))]

HStart(c) ==
    /\ run_queue # <<>> /\ Head(run_queue) = H(c)
    /\ run_queue' = Tail(run_queue)
    /\ IF CanRegister
       THEN /\ Register(c)
            /\ hpc' = [hpc EXCEPT ![c] = "greet_drain"]
            /\ UNCHANGED lock_waiters
       ELSE /\ hpc' = [hpc EXCEPT ![c] = "register_wait"]
            /\ lock_waiters' = Append(lock_waiters, H(c))
            /\ UNCHANGED <<clients, sent>>
    /\ UNCHANGED <<authenticated, net, first_payload, inbuf, closed, lock_holder,
                   nemitted, bpc, btodo, bcur, bfailed, connected_at, pending_at, auth_at,
                   bridge_vars, life_vars, mute_vars>>

HRegister(c) ==
    /\ hpc[c] = "register_wait" /\ lock_holder = H(c)
    /\ Register(c)
    /\ hpc' = [hpc EXCEPT ![c] = "greet_drain"]
    /\ lock_holder' = ReleasedHolder
    /\ lock_waiters' = ReleasedWaiters
    /\ UNCHANGED <<authenticated, net, first_payload, inbuf, closed, run_queue,
                   nemitted, bpc, btodo, bcur, bfailed, connected_at, pending_at, auth_at,
                   bridge_vars, life_vars, mute_vars>>

\* _drop_client entered from the handler: with the lock free the client is
\* removed and its writer closed at once; otherwise the handler waits.
DropBegin(c, wait_pc, closing_pc) ==
    IF lock_holder = NoTask
    THEN /\ clients' = clients \ {c}
         /\ closed' = [closed EXCEPT ![c] = TRUE]
         /\ hpc' = [hpc EXCEPT ![c] = closing_pc]
         /\ UNCHANGED lock_waiters
    ELSE /\ hpc' = [hpc EXCEPT ![c] = wait_pc]
         /\ lock_waiters' = Append(lock_waiters, H(c))
         /\ UNCHANGED <<clients, closed>>

\* The greeting's drain() (line 66, outside the try block) returns or raises;
\* when it raises the handler ends without _drop_client.
HGreetDrain(c) ==
    /\ hpc[c] = "greet_drain"
    /\ \/ net[c] = "up" /\ hpc' = [hpc EXCEPT ![c] = "read"]
       \/ net[c] = "broken" /\ hpc' = [hpc EXCEPT ![c] = "crashed"]
    /\ UNCHANGED <<clients, authenticated, net, sent, first_payload, inbuf,
                   closed, lock_holder, lock_waiters, run_queue, nemitted, bpc,
                   btodo, bcur, bfailed, connected_at, pending_at, auth_at, bridge_vars, life_vars, mute_vars>>

\* Variant: every payload is treated as the first one
needs_auth_always(c) == TRUE

\* _handle_payload line 90: if not client.authenticated
needs_auth(c) == ~authenticated[c]

\* reader.read returns a payload and _handle_payload runs to its first await
HandlePayload(c, kind) ==
    /\ hpc[c] = "read" /\ net[c] # "broken"
    /\ first_payload' = [first_payload EXCEPT ![c] = IF @ = "none" THEN kind ELSE @]
    /\ CASE kind = "garbage" ->
              /\ DropBegin(c, "drop_wait_1", "closing_1")
              /\ UNCHANGED <<authenticated, sent, auth_at>>
         [] kind = "non_object" ->
              /\ DropBegin(c, "drop_wait", "closing")
              /\ UNCHANGED <<authenticated, sent, auth_at>>
         [] kind \in {"auth_ok", "auth_wrong"} /\ ~needs_auth(c) ->
              UNCHANGED <<authenticated, sent, auth_at, hpc, clients, closed, lock_waiters>>
         [] kind = "auth_ok" /\ needs_auth(c) ->
              /\ authenticated' = [authenticated EXCEPT ![c] = TRUE]
              /\ auth_at' = [auth_at EXCEPT ![c] = nemitted]
              /\ sent' = [sent EXCEPT ![c] = Append(@, Frame("ok", 0))]
              /\ hpc' = [hpc EXCEPT ![c] = "ok_drain"]
              /\ UNCHANGED <<clients, closed, lock_waiters>>
         [] kind = "auth_wrong" /\ needs_auth(c) ->
              /\ sent' = [sent EXCEPT ![c] = Append(@, Frame("reject", 0))]
              /\ hpc' = [hpc EXCEPT ![c] = "reject_drain"]
              /\ UNCHANGED <<authenticated, auth_at, clients, closed, lock_waiters>>
    /\ UNCHANGED <<inbuf, net, lock_holder, run_queue, nemitted, bpc, btodo, bcur, bfailed,
                   connected_at, pending_at, bridge_vars, life_vars, mute_vars>>

\* drain() after the ok or the reject frame
HDrain(c) ==
    /\ hpc[c] \in {"ok_drain", "reject_drain"}
    /\ \/ /\ net[c] = "up" /\ hpc[c] = "ok_drain"
          /\ hpc' = [hpc EXCEPT ![c] = "read"]
          /\ UNCHANGED <<clients, closed, lock_waiters>>
       \/ /\ net[c] = "up" /\ hpc[c] = "reject_drain"
          /\ DropBegin(c, "drop_wait_1", "closing_1")
       \/ /\ net[c] = "broken"
          /\ DropBegin(c, "drop_wait", "closing")
    /\ UNCHANGED <<authenticated, net, sent, first_payload, inbuf, lock_holder,
                   run_queue, nemitted, bpc, btodo, bcur, bfailed, connected_at, pending_at,
                   auth_at, bridge_vars, life_vars, mute_vars>>

\* reader.read ends the loop: the peer closed (b""), the connection broke, or
\* the server closed the writer itself; the finally clause drops the client.
ReadEnds(c) ==
    /\ DropBegin(c, "drop_wait", "closing")
    /\ UNCHANGED <<authenticated, net, sent, first_payload, inbuf, lock_holder,
                   run_queue, nemitted, bpc, btodo, bcur, bfailed, connected_at, pending_at,
                   auth_at, bridge_vars, life_vars, mute_vars>>

PeerCloses(c) == hpc[c] = "read" /\ net[c] # "broken" /\ ReadEnds(c)
HReadFails(c) == hpc[c] = "read" /\ net[c] = "broken" /\ ReadEnds(c)
HReadClosed(c) == hpc[c] = "read_closed" /\ inbuf[c] = "none" /\ ReadEnds(c)

\* The peer sends a payload while the handler is inside _handle_payload,
\* waiting for the lock in _drop_client: the transport is still open and the
\* bytes go to the StreamReader's buffer.  (A payload that arrives while the
\* handler is suspended anywhere else is read as one that arrives at the
\* read; after writer.close() the transport reads nothing more.)
PeerSends(c, kind) ==
    /\ hpc[c] = "drop_wait_1" /\ ~closed[c] /\ net[c] = "up"
    /\ inbuf[c] = "none"
    /\ inbuf' = [inbuf EXCEPT ![c] = kind]
    /\ UNCHANGED <<clients, authenticated, hpc, net, sent, first_payload,
                   closed, lock_holder, lock_waiters, run_queue, nemitted, bpc,
                   btodo, bcur, bfailed, connected_at, pending_at, auth_at,
                   bridge_vars, life_vars, mute_vars>>

\* Back in the loop after _handle_payload dropped the client itself:
\* reader.read returns the buffered payload and _handle_payload runs on the
\* closed connection.  writer.write on the closed transport discards the
\* frame and drain() raises ConnectionResetError, which leaves through the
\* finally clause.
HReadBuffered(c) ==
    /\ hpc[c] = "read_closed" /\ inbuf[c] # "none"
    /\ inbuf' = [inbuf EXCEPT ![c] = "none"]
    /\ CASE inbuf[c] = "garbage" ->
              /\ DropBegin(c, "drop_wait_1", "closing_1")
              /\ UNCHANGED <<authenticated, auth_at>>
         [] inbuf[c] = "non_object" ->
              /\ DropBegin(c, "drop_wait", "closing")
              /\ UNCHANGED <<authenticated, auth_at>>
         [] inbuf[c] \in {"auth_ok", "auth_wrong"} /\ ~needs_auth(c) ->
              UNCHANGED <<authenticated, auth_at, hpc, clients, closed, lock_waiters>>
         [] inbuf[c] = "auth_ok" /\ needs_auth(c) ->
              /\ authenticated' = [authenticated EXCEPT ![c] = TRUE]
              /\ auth_at' = [auth_at EXCEPT ![c] = nemitted]
              /\ DropBegin(c, "drop_wait", "closing")
         [] inbuf[c] = "auth_wrong" /\ needs_auth(c) ->
              /\ DropBegin(c, "drop_wait", "closing")
              /\ UNCHANGED <<authenticated, auth_at>>
    /\ UNCHANGED <<net, sent, first_payload, lock_holder, run_queue, nemitted,
                   bpc, btodo, bcur, bfailed, connected_at, pending_at,
                   bridge_vars, life_vars, mute_vars>>

\* _drop_client once the lock is granted: remove, release, close the writer
HDropGranted(c) ==
    /\ hpc[c] \in {"drop_wait_1", "drop_wait"} /\ lock_holder = H(c)
    /\ clients' = clients \ {c}
    /\ closed' = [closed EXCEPT ![c] = TRUE]
    /\ hpc' = [hpc EXCEPT ![c] = IF hpc[c] = "drop_wait_1" THEN "closing_1" ELSE "closing"]
    /\ lock_holder' = ReleasedHolder
    /\ lock_waiters' = ReleasedWaiters
    /\ UNCHANGED <<authenticated, net, sent, first_payload, inbuf, run_queue,
                   nemitted, bpc, btodo, bcur, bfailed, connected_at, pending_at, auth_at,
                   bridge_vars, life_vars, mute_vars>>

\* writer.wait_closed() returns: after _handle_payload's own drop the handler
\* goes back to reader.read; after the finally clause's drop it ends.
HClosed(c) ==
    /\ hpc[c] \in {"closing_1", "closing"} /\ net[c] # "stalled"
    /\ hpc' = [hpc EXCEPT ![c] = IF hpc[c] = "closing_1" THEN "read_closed" ELSE "done"]
    /\ UNCHANGED <<clients, authenticated, net, sent, first_payload, inbuf,
                   closed, lock_holder, lock_waiters, run_queue, nemitted, bpc,
                   btodo, bcur, bfailed, connected_at, pending_at, auth_at, bridge_vars, life_vars, mute_vars>>

\* The peer's side of the transport.  The connection is reset, so that drain
\* and read raise; or the peer stops reading while a broadcast is being
\* written to it, so that the drain stays pending.  (A drain that stays pending
\* in the connection's own handler holds no lock and is a handler step that is
\* not taken; a reset while the handler only reads is the peer closing.)
WritePending(c) ==
    \/ hpc[c] \in {"greet_drain", "ok_drain", "reject_drain"}
    \/ \E t \in BroadcastTasks : bpc[t] = "drain" /\ bcur[t] = c

Stall(c) ==
    /\ net[c] = "up"
    /\ \E t \in BroadcastTasks : bpc[t] = "drain" /\ bcur[t] = c
    /\ net' = [net EXCEPT ![c] = "stalled"]
    /\ UNCHANGED <<clients, authenticated, hpc, sent, first_payload, inbuf,
                   closed, lock_holder, lock_waiters, run_queue, nemitted, bpc,
                   btodo, bcur, bfailed, connected_at, pending_at, auth_at, bridge_vars, life_vars, mute_vars>>

Break(c) ==
    /\ WritePending(c) /\ net[c] # "broken"
    /\ net' = [net EXCEPT ![c] = "broken"]
    /\ UNCHANGED <<clients, authenticated, hpc, sent, first_payload, inbuf,
                   closed, lock_holder, lock_waiters, run_queue, nemitted, bpc,
                   btodo, bcur, bfailed, connected_at, pending_at, auth_at, bridge_vars, life_vars, mute_vars>>

\* Steps the event loop takes on its own, without anything new from a peer
\* or from the ingestion path
ServerNext ==
    \/ \E t \in BroadcastTasks : BStart(t) \/ BProceed(t) \/ BDrain(t)
    \/ \E c \in Conns : \/ HStart(c) \/ HRegister(c) \/ HGreetDrain(c) \/ HDrain(c)
                        \/ HReadFails(c) \/ HReadClosed(c) \/ HDropGranted(c)
                        \/ HClosed(c)

EnvNext ==
    \/ Emit
    \/ \E c \in Conns : \/ Connect(c) \/ PeerCloses(c) \/ Stall(c) \/ Break(c)
                        \/ \E kind \in PayloadKinds : HandlePayload(c, kind)

NextSocket == ServerNext \/ EnvNext

\* The same, with peers that send on while the handler is busy with their
\* previous payload
NextSocketBuffered ==
    \/ NextSocket
    \/ \E c \in Conns : \E kind \in PayloadKinds : PeerSends(c, kind)
    \/ \E c \in Conns : HReadBuffered(c)

----------------------------------------------------------------------------
(* Specifications *)

\* NotificationSocketServer.stop(): under the lock every registered writer is
\* closed and the registry cleared, then the listening server is closed.
\* (Each wait_closed is taken to return.)
NotifierStop ==
    /\ stop_pc = "notifier_stop"
    /\ lock_holder = NoTask
    /\ closed' = [c \in Conns |-> closed[c] \/ c \in clients]
    /\ clients' = {}
    /\ sockets_closed' = TRUE
    /\ stop_pc' = "done"
    /\ UNCHANGED <<authenticated, hpc, net, sent, first_payload, inbuf, lock_holder,
                   lock_waiters, run_queue, nemitted, bpc, btodo, bcur, bfailed,
                   connected_at, pending_at, auth_at,
                   cancel_pending, client_closed, http_closed,
                   bridge_vars, mute_vars>>

BridgeInit ==
    /\ start_pc = "idle"
    /\ initial_result = "none"
    /\ ready = FALSE
    /\ sync_task = "none"
    /\ sync_token = FALSE
    /\ since = [r \in Rooms |-> 0]
    /\ rooms = <<>>
    /\ room_contact_map = <<>>
    /\ room_order = <<>>
    /\ cache = [r \in Rooms |-> <<>>]
    /\ index = <<>>
    /\ dispatched = <<>>
    /\ user_profiles = <<>>

LifeInit ==
    /\ stop_pc = "idle"
    /\ cancel_pending = FALSE
    /\ client_closed = FALSE
    /\ http_closed = FALSE
    /\ sockets_closed = FALSE

----------------------------------------------------------------------------
(* MuteStore (state.py) and MatrixBridge.set_mute *)

\* Latest clock reading of a run
MaxNow == 3

\* Contact ids come from the request URL, mute levels too
ContactIds == {"5c1d", "9ab2"}
MuteLevels == {-2, -1, 0, 1, 2, 3}
\* Expirations handed to MuteStore.set directly
Expirations == {-1, 0, 1, 3}

\* json.dump of a dict of str -> int: the object's members; json.loads back
json_dump(data) == {<<k, data[k]>> : k \in DOMAIN data}
json_loads(text) ==
    [k \in {p[1] : p \in text} |-> (CHOOSE p \in text : p[1] = k)[2]]

AbsentFile == [exists |-> FALSE, text |-> {}]

\* MuteStore.__init__: load an existing file, or create one holding "{}"
MuteStore_init(path, file) ==
    IF path /\ file.exists THEN [data |-> json_loads(file.text), file |-> file]
    ELSE IF path THEN [data |-> <<>>, file |-> [exists |-> TRUE, text |-> json_dump(<<>>)]]
    ELSE [data |-> <<>>, file |-> file]

\* MuteStore.get
MuteStore_get(data, contact_id) ==
    IF contact_id \in DOMAIN data THEN data[contact_id] ELSE 0

\* Variant: set stores whatever expiration it is given
set_keeps_nonpositive(data, contact_id, expiration) == Put(data, contact_id, expiration)

\* MuteStore.set, lines 77-80
MuteStore_set(data, contact_id, expiration) ==
    IF expiration <= 0 THEN Pop(data, contact_id)
    ELSE Put(data, contact_id, expiration)

\* Variant: the file is rewritten only when the map did not shrink
flush_unless_shrunk(path, file, data) ==
    IF ~path \/ Cardinality(DOMAIN data) < Cardinality(file.text) THEN file
    ELSE [exists |-> TRUE, text |-> json_dump(data)]

\* MuteStore._flush: the file after set, given the map
flush(path, file, data) ==
    IF ~path THEN file ELSE [exists |-> TRUE, text |-> json_dump(data)]

\* Variant: the one-week offset is a day
offsets_day_for_week(mute_level) ==
    CASE mute_level = 0 -> 8 * 60 * 60
      [] mute_level = 1 -> 24 * 60 * 60
      [] OTHER -> 0

\* set_mute, lines 371-374 and 378: offsets.get(mute_level, 0)
offsets(mute_level) ==
    CASE mute_level = 0 -> 8 * 60 * 60
      [] mute_level = 1 -> 7 * 24 * 60 * 60
      [] OTHER -> 0

\* set_mute: the expiration handed to MuteStore.set
set_mute_expiration(mute_level, t) ==
    IF mute_level = -1 THEN 0
    ELSE IF mute_level = 2 THEN t + (10 * 365 * 24 * 60 * 60)
    ELSE t + offsets(mute_level)

\* MuteStore.set(contact_id, expiration) called directly
MuteSet(contact_id, expiration) ==
    /\ mutes' = MuteStore_set(mutes, contact_id, expiration)
    /\ mute_file' = flush(mute_path, mute_file, mutes')
    /\ UNCHANGED <<mute_path, now, bridge_vars, socket_vars, life_vars>>

\* MatrixBridge.set_mute(contact_id, mute_level), reached through /setMute
SetMute(contact_id, mute_level) ==
    /\ LET expiration == set_mute_expiration(mute_level, now)
       IN mutes' = MuteStore_set(mutes, contact_id, expiration)
    /\ mute_file' = flush(mute_path, mute_file, mutes')
    /\ UNCHANGED <<mute_path, now, bridge_vars, socket_vars, life_vars>>

\* The process is restarted: a new MuteStore is constructed on the same path
MuteRestart ==
    /\ LET st == MuteStore_init(mute_path, mute_file)
       IN /\ mutes' = st.data
          /\ mute_file' = st.file
    /\ UNCHANGED <<mute_path, now, bridge_vars, socket_vars, life_vars>>

\* The clock advances
Tick ==
    /\ now < MaxNow
    /\ now' = now + 1
    /\ UNCHANGED <<mutes, mute_file, mute_path, bridge_vars, socket_vars, life_vars>>

NextMute ==
    \/ \E contact_id \in ContactIds : \E expiration \in Expirations :
         MuteSet(contact_id, expiration)
    \/ \E contact_id \in ContactIds : \E mute_level \in MuteLevels :
         SetMute(contact_id, mute_level)
    \/ MuteRestart
    \/ Tick

\* MuteStore(path) on a fresh installation with a store path: no file yet, so
\* "{}" is written
MuteInit ==
    /\ mute_path = TRUE
    /\ mutes = MuteStore_init(TRUE, AbsentFile).data
    /\ mute_file = MuteStore_init(TRUE, AbsentFile).file
    /\ now = 1

Init == BridgeInit /\ SocketInit /\ LifeInit /\ MuteInit

\* The state once start() has returned after a successful initial sync: the
\* flag is set, the loop polls, nothing has been ingested yet.
StartedInit ==
    /\ start_pc = "returned"
    /\ initial_result = "ok"
    /\ ready = TRUE
    /\ sync_task = "poll"
    /\ sync_token = TRUE
    /\ since = [r \in Rooms |-> 0]
    /\ rooms = <<>>
    /\ room_contact_map = <<>>
    /\ room_order = <<>>
    /\ cache = [r \in Rooms |-> <<>>]
    /\ index = <<>>
    /\ dispatched = <<>>
    /\ user_profiles = <<>>

\* A batch's timeline is oldest first; room_messages (direction back) returns
\* its chunk newest first.
Timelines(room_id) ==
    {t \in SeqsUpTo(TimelineEvents(room_id), MaxTimeline) :
        /\ InRoomOrder(room_id, t)
        /\ \A i \in 1..Len(t) : Position(room_id, t[i]) > since[room_id]}
Chunks(room_id) ==
    {Reverse(c) : c \in {x \in SeqsUpTo(RoomMessages(room_id), MaxChunk) :
                              InRoomOrder(room_id, x)}}

\* Start-up and the steady loop ingesting batches.
NextStart ==
    \/ Start
    \/ \E outcome \in {"ok", "sync_error", "exception"} : InitialSyncDone(outcome)
    \/ \E room_id \in Rooms : \E timeline \in Timelines(room_id) :
         OnSync(room_id, FALSE, 0, timeline)
    \/ \E room_id \in Rooms : \E timeline \in Timelines(room_id) :
         \E k \in 0..MaxTimeline : OnSyncRaises(room_id, timeline, k)
    \/ PollFail
    \/ BackoffDone
    \/ StopBegin
    \/ \E outcome \in CancelOutcomes : CancelDelivered(outcome)
    \/ StopTaskAwaited
    \/ ClientClosed
    \/ HttpClosed
    \/ NotifierStop

SpecStart == Init /\ [][NextStart]_vars

\* The homeserver's batches mention r1 before any other room.  (Nothing the
\* cache does reads the directory's order; SpecRooms has every order.)
FirstSeenInOrder(room_id) == room_id = "r1" \/ "r1" \in DOMAIN rooms

\* The running bridge: batches, backfill, on-demand lookups and delete-chat
\* against RoomDirectory and MessageCache.
NextCache ==
    \/ \E room_id \in Rooms : \E timeline \in Timelines(room_id) :
         FirstSeenInOrder(room_id) /\ OnSync(room_id, FALSE, 0, timeline)
    \/ \E room_id \in Rooms : \E chunk \in Chunks(room_id) :
         FetchMessages(room_id, chunk)
    \/ \E event_id \in EventIds : GetMessageRecord(event_id)
    \/ \E room_id \in Rooms : DeleteChat(room_id)

\* The running bridge as the request layer sees it: batches with unread counts,
\* and the query operations of the HTTP API.
NextRequest ==
    \/ \E room_id \in Rooms : \E timeline \in Timelines(room_id) :
         \E has_count \in BOOLEAN : \E count \in 0..MaxUnread :
            OnSync(room_id, has_count, count, timeline)
    \/ \E room_id \in Rooms : \E chunk \in Chunks(room_id) :
         FetchMessages(room_id, chunk)
    \/ \E event_id \in EventIds : GetMessageRecord(event_id)
    \/ \E room_id \in Rooms : \E outcome \in {"ok", "error"} : MarkRead(room_id, outcome)
    \/ GetChats

RequestInit == StartedInit /\ SocketInit /\ LifeInit /\ MuteInit

SpecRequest == RequestInit /\ [][NextRequest]_vars

\* The process is restarted and start() returns again: everything the bridge
\* held in memory is gone.  (The homeserver's position in each room is kept.)
Restart ==
    /\ rooms # <<>>
    /\ start_pc' = "returned"
    /\ initial_result' = "ok"
    /\ ready' = TRUE
    /\ sync_task' = "poll"
    /\ sync_token' = TRUE
    /\ rooms' = <<>>
    /\ room_contact_map' = <<>>
    /\ room_order' = <<>>
    /\ cache' = [r \in Rooms |-> <<>>]
    /\ index' = <<>>
    /\ dispatched' = <<>>
    /\ user_profiles' = <<>>
    /\ UNCHANGED <<since, socket_vars, life_vars, mute_vars>>

\* The room directory over restarts: batches that name joined rooms (with an
\* unread count or without, and for the rooms with history a timeline), and
\* read markers.
NextRooms ==
    \/ \E room_id \in RoomIds : \E has_count \in BOOLEAN : \E count \in 0..MaxUnread :
         OnSync(room_id, has_count, count, <<>>)
    \/ \E room_id \in Rooms : \E timeline \in Timelines(room_id) :
         OnSync(room_id, FALSE, 0, timeline)
    \/ \E room_id \in RoomIds : MarkRead(room_id, "ok")
    \/ \E room_id \in Rooms : DeleteChat(room_id)
    \/ \E room_id \in RoomIds : LeaveRoom(room_id)
    \/ Restart

RoomsInit == StartedInit /\ SocketInit /\ LifeInit /\ MuteInit

SpecRooms == RoomsInit /\ [][NextRooms]_vars

\* A fresh installation, with a store path or without
MuteSpecInit ==
    /\ BridgeInit /\ SocketInit /\ LifeInit
    /\ mute_path \in BOOLEAN
    /\ mutes = MuteStore_init(mute_path, AbsentFile).data
    /\ mute_file = MuteStore_init(mute_path, AbsentFile).file
    /\ now = 1

SpecMute == MuteSpecInit /\ [][NextMute]_vars

\* The ingestion path alone: batches of the rooms with history, with the
\* broadcasts each one creates.
NextIngest ==
    \E room_id \in Rooms : \E timeline \in Timelines(room_id) :
       \E has_count \in BOOLEAN : \E count \in 0..MaxUnread :
          OnSyncDispatch(room_id, has_count, count, timeline)

IngestInit == StartedInit /\ SocketInit /\ LifeInit /\ MuteInit

SpecIngest == IngestInit /\ [][NextIngest]_vars

\* Batches with state events: membership and other state of the rooms
NextMembers ==
    \E room_id \in Rooms : \E state_events \in SeqsUpTo(StateEvents, MaxStateEvents) :
       OnSyncState(room_id, <<>>, state_events)

MembersInit == StartedInit /\ SocketInit /\ LifeInit /\ MuteInit

SpecMembers == MembersInit /\ [][NextMembers]_vars

\* Batches with ephemeral events, and a timeline of one event at most
ShortTimelines(room_id) ==
    {<<>>} \cup {<<e>> : e \in {x \in TimelineEvents(room_id) :
                                  Position(room_id, x) > since[room_id]}}

NextTyping ==
    \E room_id \in Rooms : \E timeline \in ShortTimelines(room_id) :
       \E ephemeral_events \in EphemeralBatches :
          OnSyncEphemeral(room_id, timeline, ephemeral_events)

TypingInit == StartedInit /\ SocketInit /\ LifeInit /\ MuteInit

SpecTyping == TypingInit /\ [][NextTyping]_vars

\* Batches of one message event each, of every content type
ContentEvents == {"a3", "b1"}
NextContent ==
    \E e \in ContentEvents : \E msgtype \in MsgTypes : \E voice \in VoiceFlags :
       OnSyncContent(e, msgtype, voice)

ContentInit == StartedInit /\ SocketInit /\ LifeInit /\ MuteInit

SpecContent == ContentInit /\ [][NextContent]_vars

\* Unread counters: batches with a notification count or without, and read
\* markers that the homeserver accepts or refuses
NextUnread ==
    \/ \E room_id \in Rooms : \E timeline \in ShortTimelines(room_id) :
         \E has_count \in BOOLEAN : \E count \in 0..MaxUnread :
            OnSync(room_id, has_count, count, timeline)
    \/ \E room_id \in Rooms : \E outcome \in {"ok", "error"} : MarkRead(room_id, outcome)

UnreadInit == StartedInit /\ SocketInit /\ LifeInit /\ MuteInit

SpecUnread == UnreadInit /\ [][NextUnread]_vars

\* Start-up followed by batches, with the broadcasts the batches create.
NextReady ==
    \/ Start
    \/ \E outcome \in {"ok", "sync_error", "exception"} : InitialSyncDone(outcome)
    \/ \E room_id \in Rooms : \E timeline \in Timelines(room_id) :
         OnSyncDispatch(room_id, FALSE, 0, timeline)
    \/ \E room_id \in Rooms : \E timeline \in Timelines(room_id) :
         \E k \in 0..MaxTimeline : OnSyncRaises(room_id, timeline, k)

ReadyInit == BridgeInit /\ SocketInit /\ LifeInit /\ MuteInit
SpecReady == ReadyInit /\ [][NextReady]_vars

CacheInit == StartedInit /\ SocketInit /\ LifeInit /\ MuteInit

SpecCache == CacheInit /\ [][NextCache]_vars

SocketSpecInit == StartedInit /\ SocketInit /\ LifeInit /\ MuteInit

SpecSocket == SocketSpecInit /\ [][NextSocket]_vars

BufferedInit == StartedInit /\ SocketInit /\ LifeInit /\ MuteInit

SpecSocketBuffered == BufferedInit /\ [][NextSocketBuffered]_vars

----------------------------------------------------------------------------
(* Properties of MessageCache (SpecCache) *)

BufferIds(room_id) == {cache[room_id][i].event_id : i \in DOMAIN cache[room_id]}
RoomsHolding(event_id) == {r \in Rooms : event_id \in BufferIds(r)}

\* C1: after any sequence of adds (sync ingestion, fetch_messages backfill,
\* get_message_record) and clear_room calls, the ids in the global index are
\* exactly the ids held in the per-room buffers, and every indexed id is held
\* by exactly one buffer.
C1_IndexMatchesBuffers ==
    /\ DOMAIN index = UNION {BufferIds(r) : r \in Rooms}
    /\ \A event_id \in DOMAIN index : Cardinality(RoomsHolding(event_id)) = 1

\* C2: in every reachable state, whatever adds and clear_room calls led to it,
\* no room's buffer holds more records than the configured capacity.
C2_BufferWithinCapacity ==
    \A r \in Rooms : Len(cache[r]) <= max_messages_per_room

\* A record of a2 that quotes a1 was converted while a1 was indexed
QuotesA1(record) ==
    record.event_id = "a2" /\ record.payload.hasQuotedMsg
        /\ record.payload.quotedStanzaID = "a1"

\* a1 was added to r1 before a2, the buffer is full, and a1 is gone from it
\* while the later a2 is still there: an add has evicted it.
C2_Witness ==
    /\ Len(cache["r1"]) = max_messages_per_room
    /\ \E i \in DOMAIN cache["r1"] : QuotesA1(cache["r1"][i])
    /\ "a1" \notin BufferIds("r1")

\* The records an add can be called with in the current state
CandidateRecords ==
    {MessageRecord(e, event_room(e), convert_message(index, MessageEvent(e))) :
        e \in EventIds}

\* C3: from every reachable state, an add that makes the room's buffer exceed
\* its capacity evicts exactly one record, the earliest-inserted one of that
\* room; the record leaves the buffer and its id leaves the global index; the
\* other rooms' buffers and index entries stay as they were.  An add that does
\* not overflow evicts nothing.
C3_EvictsOldestOfThatRoomOnly ==
    \A record \in CandidateRecords :
        LET r == record.room_id
            mc == MessageCache_add(CurrentCache, record)
        IN IF Len(cache[r]) + 1 > max_messages_per_room
           THEN /\ mc.evicted = <<Head(cache[r])>>
                /\ mc.cache[r] = Append(Tail(cache[r]), record)
                /\ Head(cache[r]).event_id \notin DOMAIN mc.index
                /\ \A q \in Rooms \ {r} : mc.cache[q] = cache[q]
                /\ \A event_id \in DOMAIN index :
                      index[event_id].room_id # r =>
                          /\ event_id \in DOMAIN mc.index
                          /\ mc.index[event_id] = index[event_id]
           ELSE /\ mc.evicted = <<>>
                /\ mc.cache[r] = Append(cache[r], record)

\* r1 went through an overflowing add: a1 was evicted, the two later records
\* are the buffer, oldest first, and r2's record is in its buffer and indexed.
C3_Witness ==
    /\ Len(cache["r1"]) = max_messages_per_room
    /\ QuotesA1(Head(cache["r1"]))
    /\ cache["r1"][Len(cache["r1"])].event_id = "a3"
    /\ "a1" \notin DOMAIN index
    /\ "a3" \in DOMAIN index
    /\ BufferIds("r2") = {"b1"}
    /\ "b1" \in DOMAIN index

IndexOfRoom(ix, room_id) == {event_id \in DOMAIN ix : ix[event_id].room_id = room_id}

\* C4: a step that clears room r (its buffer goes from non-empty to empty:
\* adds never empty a buffer) leaves no record of r in the global index and
\* leaves every other room's buffer, every other room's index entries and
\* every RoomSnapshot, r's own included, as they were.
C4_ClearRoomFrame ==
    [][\A r \in Rooms :
          (cache[r] # <<>> /\ cache'[r] = <<>>) =>
              /\ IndexOfRoom(index', r) = {}
              /\ \A q \in Rooms \ {r} :
                    /\ cache'[q] = cache[q]
                    /\ IndexOfRoom(index', q) = IndexOfRoom(index, q)
                    /\ \A event_id \in IndexOfRoom(index, q) :
                          index'[event_id] = index[event_id]
              /\ rooms' = rooms]_vars

\* r1 has a snapshot that points at an ingested message, its buffer is empty
\* again and none of its records is indexed, while r2 still has its record.
C4_Witness ==
    /\ "r1" \in DOMAIN rooms
    /\ rooms["r1"].last_message_id # NoneId
    /\ cache["r1"] = <<>>
    /\ IndexOfRoom(index, "r1") = {}
    /\ BufferIds("r2") = {"b1"}
    /\ IndexOfRoom(index, "r2") = {"b1"}

----------------------------------------------------------------------------
(* Properties of start-up (SpecStart) *)

\* C10: the readiness flag is set only after the initial full-state sync has
\* returned or raised; it is set in both cases; start() launches the steady
\* sync loop even when the initial sync failed; once set, the flag is never
\* cleared.
C10_ReadyAfterInitialSync ==
    /\ [](ready => initial_result # "none")
    /\ [](start_pc = "returned" => ready /\ sync_task # "none")
    /\ [][ready => ready']_vars

\* start() has returned after a failed initial sync: the flag is set and the
\* loop polls.
C10_Witness ==
    /\ initial_result \in {"sync_error", "exception"}
    /\ start_pc = "returned"
    /\ ready
    /\ sync_task \in {"poll", "backoff"}

\* Where a cached message stands in its room's history
EventPosition(event_id) == Position(event_room(event_id), MessageEvent(event_id))

\* C11: batches are processed one at a time by the polling loop, each wholly
\* before the next poll (a step that changes a snapshot or the cache is a step
\* of the loop, which polls again afterwards), and a room's timeline events
\* are applied to MessageCache in the order delivered, within a batch and
\* across batches: a room's buffer is ordered as the room's history and the
\* snapshot points at the newest applied message.
C11_BatchesAppliedInOrder ==
    /\ [](\A r \in Rooms : \A i, j \in DOMAIN cache[r] :
             i < j => EventPosition(cache[r][i].event_id)
                          < EventPosition(cache[r][j].event_id))
    /\ [](\A r \in DOMAIN rooms :
             cache[r] # <<>> =>
                 rooms[r].last_message_id = cache[r][Len(cache[r])].event_id)
    /\ [][(cache' # cache \/ rooms' # rooms) =>
              (ready /\ sync_task = "poll" /\ sync_task' \in {"poll", "backoff"})]_vars

\* All of r1's history has been delivered, in more than one batch; the buffer
\* holds its two newest messages, oldest first.
C11_Witness ==
    /\ since["r1"] = Len(RoomHistory("r1"))
    /\ Len(cache["r1"]) = 2
    /\ cache["r1"][1].event_id = "a2"
    /\ cache["r1"][2].event_id = "a3"
    /\ rooms["r1"].last_message_id = "a3"

\* C12: a failure of the polling loop, in the poll itself or while a batch is
\* processed, never ends the loop: it sleeps the fixed delay and polls again.
\* Only the cancellation from stop() ends it.
C12_LoopSurvivesFailures ==
    /\ [](sync_task # "ended")
    /\ [][sync_task = "poll" => sync_task' \in {"poll", "backoff", "cancelled"}]_vars
    /\ [][sync_task = "backoff" => sync_task' \in {"backoff", "poll", "cancelled"}]_vars
    /\ [][(sync_task # "cancelled" /\ sync_task' = "cancelled") => cancel_pending]_vars
    /\ [](sync_task = "backoff" /\ ~cancel_pending => ENABLED BackoffDone)

\* A batch failed in processing (consumed, but the room's last_event_ts never
\* written) and the loop is polling again.
C12_Witness ==
    /\ sync_task = "poll"
    /\ since["r1"] > 0
    /\ "r1" \in DOMAIN rooms
    /\ rooms["r1"].last_event_ts = 0
    /\ stop_pc = "idle"

\* stop() has gone past "await self._sync_task"
StopReturned == stop_pc \in {"notifier_stop", "done"}

\* C13: stop() completes from every loop state.  While it awaits the loop
\* task, the task has ended or still has the cancellation coming to it (so the
\* await returns); the client is closed only after the task has ended, the
\* HTTP transport after the client; and once stop() has returned no batch is
\* processed.
C13_StopCompletes ==
    /\ [](stop_pc = "await_task" => (cancel_pending \/ sync_task = "cancelled"))
    /\ [](client_closed => sync_task \in {"none", "cancelled"})
    /\ [](http_closed => client_closed)
    /\ [][StopReturned => (cache' = cache /\ rooms' = rooms)]_vars

\* A step of the sync ingestion path: _on_sync applied to some batch
SyncStep ==
    \E room_id \in Rooms : \E timeline \in Timelines(room_id) :
      \E has_count \in BOOLEAN : \E count \in 0..MaxUnread :
         OnSync(room_id, has_count, count, timeline)

\* C15: snapshots and the message cache change only in steps of the sync
\* ingestion path; no request-layer operation changes either.
C15_OnlySyncWrites ==
    [][(rooms' # rooms \/ cache' # cache \/ index' # index) => SyncStep]_vars

\* C16: the directory holds one snapshot per room id; a snapshot's contact id
\* is contact_id_from_room of its room id; the reverse map sends that contact
\* id back to that room id; and room id and contact id of a snapshot never
\* change, so a restart gives a room the same contact id again.
C16_ContactIdOfRoom ==
    /\ [](\A r \in DOMAIN rooms :
             /\ rooms[r].room_id = r
             /\ rooms[r].contact_id = contact_id_from_room(r)
             /\ rooms[r].contact_id \in DOMAIN room_contact_map
             /\ room_contact_map[rooms[r].contact_id] = r)
    /\ [][\A r \in DOMAIN rooms \cap DOMAIN rooms' :
             /\ rooms'[r].room_id = rooms[r].room_id
             /\ rooms'[r].contact_id = rooms[r].contact_id]_vars

\* C17: set_mute(contact, level) at time now leaves contact's expiration as:
\* level -1 no entry (get gives 0), level 0 now + 28800, level 1 now + 604800,
\* level 2 now + 315360000, any other level now + 0.
C17_SetMuteLevels ==
    [][\A contact_id \in ContactIds : \A mute_level \in MuteLevels :
         SetMute(contact_id, mute_level) =>
            /\ mute_level = -1 => contact_id \notin DOMAIN mutes'
            /\ MuteStore_get(mutes', contact_id) =
                  CASE mute_level = -1 -> 0
                    [] mute_level = 0 -> now + 28800
                    [] mute_level = 1 -> now + 604800
                    [] mute_level = 2 -> now + 315360000
                    [] OTHER -> now + 0]_vars

\* One contact muted for a week and the other with an unknown level, both at
\* the present clock reading
C17_Witness ==
    /\ now > 1
    /\ MuteStore_get(mutes, "5c1d") = now + 604800
    /\ MuteStore_get(mutes, "9ab2") = now

\* C18: MuteStore is a map with default 0.  set(c, e) makes get(c) return e
\* when e > 0 and 0 otherwise, and leaves every other contact's answer alone;
\* a contact never set answers 0; the passage of time removes nothing.
C18_MuteStoreIsMapWithDefault ==
    /\ [](\A contact_id \in ContactIds :
             contact_id \notin DOMAIN mutes => MuteStore_get(mutes, contact_id) = 0)
    /\ [][\A contact_id \in ContactIds : \A expiration \in Expirations :
            MuteSet(contact_id, expiration) =>
               /\ MuteStore_get(mutes', contact_id) =
                     IF expiration > 0 THEN expiration ELSE 0
               /\ \A other \in ContactIds \ {contact_id} :
                     MuteStore_get(mutes', other) = MuteStore_get(mutes, other)]_vars
    /\ [][now' # now => mutes' = mutes]_vars

\* An entry that expired in the past is still held, next to a contact that
\* has no entry
C18_Witness ==
    /\ "5c1d" \in DOMAIN mutes
    /\ mutes["5c1d"] < now
    /\ "9ab2" \notin DOMAIN mutes

\* C19: with a store path, at every moment between calls the file holds the
\* in-memory map: a MuteStore constructed from it answers get as the running
\* one does, for every contact id.  The absent file was made an empty map.
C19_FileHoldsTheMap ==
    mute_path =>
        /\ mute_file.exists
        /\ json_loads(mute_file.text) = mutes
        /\ \A contact_id \in ContactIds :
              MuteStore_get(MuteStore_init(mute_path, mute_file).data, contact_id)
                = MuteStore_get(mutes, contact_id)

\* Both contacts are in the map and in the file
C19_Witness ==
    /\ mute_path
    /\ Cardinality(mute_file.text) = 2
    /\ DOMAIN mutes = ContactIds

\* Replies of the model and their targets
Replies == {e \in EventIds : event_reply_to(e) # NoneId}

\* The record of event_id is held in some room's buffer or in the index
InMessageCache(event_id) == event_id \in DOMAIN index \/ RoomsHolding(event_id) # {}

\* The payload quotes the message target with its body and type
QuotesTarget(payload, target) ==
    /\ payload.hasQuotedMsg
    /\ payload.quotedMsg = [body |-> event_body(target),
                            type |-> map_msgtype(event_msgtype(target), "absent")]
    /\ payload.quotedStanzaID = target

\* C20: a reply B to message A.  A record of B that stands behind a record of
\* A in the same buffer was translated with A in the cache, so it quotes A; B
\* translated in the present state quotes A if A is in the cache and is
\* translated without a quote if it is not; a stored quote always carries the
\* target's body and type.  (In one batch the target is added before the reply
\* is translated, so it stands before it.)
C20_ReplyResolution ==
    /\ \A r \in Rooms : \A i, j \in DOMAIN cache[r] :
          (i < j /\ cache[r][j].event_id \in Replies
                 /\ cache[r][i].event_id = event_reply_to(cache[r][j].event_id))
             => QuotesTarget(cache[r][j].payload, cache[r][i].event_id)
    /\ \A b \in Replies :
          LET payload == convert_message(index, MessageEvent(b))
          IN /\ payload.id = b
             /\ InMessageCache(event_reply_to(b)) => QuotesTarget(payload, event_reply_to(b))
             /\ ~InMessageCache(event_reply_to(b)) => ~payload.hasQuotedMsg
    /\ \A r \in Rooms : \A j \in DOMAIN cache[r] :
          cache[r][j].payload.hasQuotedMsg =>
              QuotesTarget(cache[r][j].payload, event_reply_to(cache[r][j].event_id))

\* The message events of a timeline, and the broadcasts of one kind
MessagesOf(timeline) == SelectSeq(timeline, LAMBDA ev : ev.type = "m.room.message")
BroadcastsOf(tasks, response) == SelectSeq(tasks, LAMBDA task : task.response = response)

\* C21: a batch whose timeline for a room holds one message event appends one
\* record, that event's, to the room's buffer (the oldest record leaving a full
\* buffer) and touches no other buffer; the snapshot's last_message_id is the
\* event's id and its last_event_ts the timestamp of the timeline's final
\* event; one NEW_MESSAGE_NOTI and one ACK_MESSAGE are dispatched, the ack
\* being 4 for the bridge's own user and 2 for anyone else.
C21_OneMessageBatch ==
    [][\A room_id \in Rooms : \A timeline \in Timelines(room_id) :
        \A has_count \in BOOLEAN : \A count \in 0..MaxUnread :
          (/\ OnSyncDispatch(room_id, has_count, count, timeline)
           /\ Len(MessagesOf(timeline)) = 1)
          => LET event == MessagesOf(timeline)[1]
                 old == cache[room_id]
                 new == cache'[room_id]
                 kept == Len(new) - 1
             IN /\ Len(new) = IF Len(old) < max_messages_per_room
                                THEN Len(old) + 1 ELSE max_messages_per_room
                /\ new[Len(new)].event_id = event.event_id
                /\ SubSeq(new, 1, kept) = SubSeq(old, Len(old) - kept + 1, Len(old))
                /\ \A r \in Rooms \ {room_id} : cache'[r] = cache[r]
                /\ rooms'[room_id].last_message_id = event.event_id
                /\ rooms'[room_id].last_event_ts =
                       timeline[Len(timeline)].server_timestamp
                /\ Len(BroadcastsOf(dispatched', "NEW_MESSAGE_NOTI")) = 1
                /\ Len(BroadcastsOf(dispatched', "ACK_MESSAGE")) = 1
                /\ LET ack == BroadcastsOf(dispatched', "ACK_MESSAGE")[1].body
                   IN /\ ack.msgId = event.event_id
                      /\ ack.ack = IF event.sender = SelfUser THEN 4 ELSE 2]_vars

\* The latest batch for r1 held the bridge's own message a2 and nothing else:
\* its record is the newest, the snapshot points at it, and it was
\* acknowledged with level 4.
C21_Witness ==
    /\ Len(dispatched) = 2
    /\ dispatched[1].response = "NEW_MESSAGE_NOTI"
    /\ dispatched[2].response = "ACK_MESSAGE"
    /\ dispatched[2].body.msgId = "a2"
    /\ dispatched[2].body.ack = 4
    /\ "r1" \in DOMAIN rooms
    /\ rooms["r1"].last_message_id = "a2"
    /\ cache["r1"] # <<>>
    /\ cache["r1"][Len(cache["r1"])].event_id = "a2"

RedactionsOf(timeline) == SelectSeq(timeline, LAMBDA ev : ev.type = "m.room.redaction")

\* C22: a redaction event dispatches one REVOKE_MESSAGE broadcast and changes
\* neither the buffers, nor the index, nor the snapshot's last_message_id: a
\* batch dispatches as many REVOKE_MESSAGE broadcasts as it holds redactions,
\* a batch of a redaction alone leaves cache, index and last_message_id as
\* they were, and in any batch the redacted message's record, if indexed and
\* not evicted by the batch's own messages, keeps its payload.
C22_RedactionOnlyAnnounces ==
    [][\A room_id \in Rooms : \A timeline \in Timelines(room_id) :
        \A has_count \in BOOLEAN : \A count \in 0..MaxUnread :
          (/\ OnSyncDispatch(room_id, has_count, count, timeline)
           /\ RedactionsOf(timeline) # <<>>)
          => /\ Len(BroadcastsOf(dispatched', "REVOKE_MESSAGE"))
                   = Len(RedactionsOf(timeline))
             /\ MessagesOf(timeline) = <<>> =>
                   /\ dispatched' = <<[response |-> "REVOKE_MESSAGE"]>>
                   /\ cache' = cache
                   /\ index' = index
                   /\ rooms'[room_id].last_message_id =
                         ensure_snapshot(room_id).last_message_id
             /\ \A i \in DOMAIN timeline :
                   LET target == timeline[i].redacts
                   IN (target # NoneId /\ target \in DOMAIN index
                                      /\ target \in DOMAIN index')
                         => index'[target] = index[target]]_vars

\* The latest batch was r1's redaction of a1 alone, and a1's record is still
\* in the buffer and the index, and r1's snapshot still points at a1
C22_Witness ==
    /\ dispatched = <<[response |-> "REVOKE_MESSAGE"]>>
    /\ since["r1"] = Position("r1", RedactionEvent("r1"))
    /\ "a1" \in DOMAIN index
    /\ index["a1"].payload.body = event_body("a1")
    /\ "a1" \in BufferIds("r1")
    /\ rooms["r1"].last_message_id = "a1"

\* C23: within the life of a process the directory's room ids never shrink,
\* and a known room's snapshot is never replaced by a fresh one: its room id
\* and contact id stay, its last-message pointer and last-event timestamp,
\* once set, are not reset, and its unread count changes only by a batch that
\* reports a count for the room or by mark_read.
C23_SnapshotsAreKept ==
    [][Restart \/
       /\ DOMAIN rooms \subseteq DOMAIN rooms'
       /\ \A r \in DOMAIN rooms :
            /\ rooms'[r].room_id = rooms[r].room_id
            /\ rooms'[r].contact_id = rooms[r].contact_id
            /\ rooms[r].last_message_id # NoneId => rooms'[r].last_message_id # NoneId
            /\ rooms[r].last_event_ts # 0 => rooms'[r].last_event_ts # 0
            /\ rooms'[r].unread_count # rooms[r].unread_count =>
                  \/ MarkRead(r, "ok")
                  \/ \E count \in 0..MaxUnread : OnSync(r, TRUE, count, <<>>)]_vars

\* r1's history was deleted after its messages arrived and an unread count
\* was reported: the snapshot is still there with its pointer and its count,
\* next to two more rooms
C23_Witness ==
    /\ DOMAIN rooms = RoomIds
    /\ cache["r1"] = <<>>
    /\ rooms["r1"].last_message_id = "a3"
    /\ rooms["r1"].unread_count = 1

IsSortedDesc(chats) ==
    \A i, j \in DOMAIN chats : i < j => chats[i].timestamp >= chats[j].timestamp

\* C24: get_chats returns the chat list and the group list each ordered by
\* last-activity timestamp, most recent first, and get_groups returns the
\* groups in that order too.
C24_ListsSortedByActivity ==
    /\ IsSortedDesc(get_chats.chatList)
    /\ {get_chats.chatList[i].room_id : i \in DOMAIN get_chats.chatList} = DOMAIN rooms
    /\ IsSortedDesc(get_chats.groupList)
    /\ IsSortedDesc(get_groups.groupList)
    /\ get_groups.groupList = get_chats.groupList

\* C25: get_contacts returns a list in which no two entries share a contact
\* id, that is in ascending order of the lower-cased names, and that holds
\* the synthetic self contact (and no other entry for the bridge's own user),
\* also when that user is a participant of a room.
C25_ContactsDedupedSortedWithSelf ==
    LET list == get_contacts.contactList
    IN /\ \A i, j \in DOMAIN list : i # j => list[i].number # list[j].number
       /\ \A i, j \in DOMAIN list :
             i < j => str_le(lower(codes(list[i].name)), lower(codes(list[j].name)))
       /\ \E i \in DOMAIN list :
             /\ list[i] = build_self_contact
             /\ list[i].isMe
       /\ \A r \in DOMAIN rooms :
             /\ ~rooms[r].is_group => \E i \in DOMAIN list : list[i].number = rooms[r].contact_id
             /\ \A k \in DOMAIN rooms[r].participants :
                   \E i \in DOMAIN list :
                      list[i].number = contact_id_from_user(rooms[r].participants[k])

\* Every room is known, the bridge's own user is a participant of each, and
\* the list has the direct chat, the two other users and the self contact
C25_Witness ==
    /\ DOMAIN rooms = RoomIds
    /\ \A r \in RoomIds : \E k \in DOMAIN rooms[r].participants :
          rooms[r].participants[k] = SelfUser
    /\ Len(get_contacts.contactList) = 4

\* C26: what a read of the room directory returns is a copy: a caller that
\* changes the snapshot it was returned (mark_read sets its unread_count)
\* leaves the state held by the directory as it was.
C26_ReadsReturnCopies ==
    [][(\E room_id \in RoomIds : MarkRead(room_id, "ok")) => rooms' = rooms]_vars

IsPrefix(a, b) == Len(a) <= Len(b) /\ \A i \in DOMAIN a : a[i] = b[i]

\* The positions of user_id's membership events in a list of state events
MemberEventsOf(user_id, state_events) ==
    {i \in DOMAIN state_events :
        /\ state_events[i].type = "m.room.member"
        /\ state_events[i].state_key = user_id}

Latest(S) == CHOOSE i \in S : \A j \in S : j <= i

\* C31: a snapshot's participant list never holds a user id twice and only
\* grows at its end; and a batch leaves the profile table with one entry per
\* user observed so far: for a user with membership events in the batch, the
\* profile of the last of them (and the user is a participant of the room),
\* for any other user what the table held before.
C31_ParticipantsAndProfiles ==
    /\ [](\A r \in DOMAIN rooms : \A i, j \in DOMAIN rooms[r].participants :
            i # j => rooms[r].participants[i] # rooms[r].participants[j])
    /\ [][\A r \in DOMAIN rooms :
            r \in DOMAIN rooms' /\ IsPrefix(rooms[r].participants, rooms'[r].participants)]_vars
    /\ [][\A room_id \in Rooms : \A state_events \in SeqsUpTo(StateEvents, MaxStateEvents) :
            OnSyncState(room_id, <<>>, state_events) =>
               \A u \in MemberUsers \cup DOMAIN user_profiles \cup DOMAIN user_profiles' :
                  LET mine == MemberEventsOf(u, state_events)
                  IN IF mine = {}
                     THEN /\ (u \in DOMAIN user_profiles') = (u \in DOMAIN user_profiles)
                          /\ u \in DOMAIN user_profiles =>
                                 user_profiles'[u] = user_profiles[u]
                     ELSE LET last == state_events[Latest(mine)]
                          IN /\ u \in DOMAIN user_profiles'
                             /\ user_profiles'[u].display_name =
                                   (IF last.displayname = NoneId THEN u
                                    ELSE last.displayname)
                             /\ \E i \in DOMAIN rooms'[room_id].participants :
                                   rooms'[room_id].participants[i] = u]_vars

\* After membership events of a listed user and of a new one, in both rooms:
\* the new user is at the end of each list, the listed one where it was, and
\* each has its latest profile
C31_Witness ==
    /\ DOMAIN rooms = Rooms
    /\ rooms["r1"].participants = <<SelfUser, "@peer", "@new">>
    /\ rooms["r2"].participants = <<"@peer", SelfUser, "@Zed", "@new">>
    /\ DOMAIN user_profiles = {"@peer", "@new"}
    /\ user_profiles["@new"].display_name = "Pat"
    /\ user_profiles["@peer"].display_name = "@peer"

TypingOf(events) == SelectSeq(events, LAMBDA ev : ev.type = "m.typing")

\* C32: a batch dispatches one CONTACT_CHANGE_STATE broadcast per typing
\* event of the room, in order, each with the room's contact id and with
\* status composing when the event lists users and paused when it lists none;
\* the typing events add nothing else to what the batch dispatches, and a
\* batch of ephemeral events only leaves the buffers, the index and the
\* room's snapshot as they were (a room not seen before gets its new
\* snapshot).
C32_TypingBroadcasts ==
    [][\A room_id \in Rooms : \A ephemeral_events \in EphemeralBatches :
         (BroadcastsOf(dispatched', "CONTACT_CHANGE_STATE")
             = ephemeral_broadcasts(room_id, ephemeral_events)) =>
         \A timeline \in ShortTimelines(room_id) :
            OnSyncEphemeral(room_id, timeline, ephemeral_events) =>
               LET typing == TypingOf(ephemeral_events)
                   out == BroadcastsOf(dispatched', "CONTACT_CHANGE_STATE")
               IN /\ Len(out) = Len(typing)
                  /\ \A i \in DOMAIN out :
                        /\ out[i].body.from = contact_id_from_room(room_id)
                        /\ out[i].body.status =
                              (IF typing[i].user_ids = <<>> THEN "paused" ELSE "composing")
                  /\ Len(dispatched') = Len(out) + Len(timeline_broadcasts(room_id, timeline))
                  /\ timeline = <<>> =>
                        /\ cache' = cache /\ index' = index
                        /\ rooms' = IF room_id \in DOMAIN rooms THEN rooms
                                    ELSE Put(rooms, room_id, NewSnapshot(room_id))]_vars

\* A batch of a known room with a message in its buffer carried two typing
\* events, one with users and then one without
C32_Witness ==
    /\ Len(dispatched) = 2
    /\ dispatched[1].response = "CONTACT_CHANGE_STATE"
    /\ dispatched[1].body.status = "composing"
    /\ dispatched[2].response = "CONTACT_CHANGE_STATE"
    /\ dispatched[2].body.status = "paused"
    /\ dispatched[1].body.from = contact_id_from_room("r1")
    /\ cache["r1"] # <<>>

\* The kind a content type maps to: text, notice, emote and anything
\* unknown or missing are chat; file is document; audio is ptt with the voice
\* flag and audio without; the others keep their name
KindOf(msgtype, voice) ==
    CASE msgtype \in {"m.image", "m.video", "m.location", "m.sticker"}
            -> (CASE msgtype = "m.image" -> "image" [] msgtype = "m.video" -> "video"
                  [] msgtype = "m.location" -> "location" [] OTHER -> "sticker")
      [] msgtype = "m.file" -> "document"
      [] msgtype = "m.audio" -> IF voice # "absent" THEN "ptt" ELSE "audio"
      [] OTHER -> "chat"

\* C33: a message event of a timeline adds exactly one record to its room's
\* buffer, whatever its content type, and the record's kind is the one its
\* content type maps to.
C33_EveryMessageCachedWithItsKind ==
    [][\A e \in ContentEvents : \A msgtype \in MsgTypes : \A voice \in VoiceFlags :
         OnSyncContent(e, msgtype, voice) =>
            LET old == cache[event_room(e)]
                new == cache'[event_room(e)]
            IN /\ Len(new) = Len(old) + 1
               /\ SubSeq(new, 1, Len(old)) = old
               /\ new[Len(new)].event_id = e
               /\ new[Len(new)].payload.type = KindOf(msgtype, voice)]_vars

\* C34: a batch with a notification count for a room sets the snapshot's
\* unread count to it, and one without leaves the count of a known room; a
\* mark_read of a snapshot without last_message_id calls nothing, raises
\* nothing and changes nothing; otherwise it makes the call, and on success
\* sets the unread count to 0 and changes nothing else, while on failure it
\* raises and changes nothing.
C34_UnreadCount ==
    /\ [][\A room_id \in Rooms : \A has_count \in BOOLEAN : \A count \in 0..MaxUnread :
            \A timeline \in ShortTimelines(room_id) :
               OnSync(room_id, has_count, count, timeline) =>
                  rooms'[room_id].unread_count =
                     (IF has_count THEN count
                      ELSE IF room_id \in DOMAIN rooms THEN rooms[room_id].unread_count
                      ELSE 0)]_vars
    /\ [][\A room_id \in Rooms : \A outcome \in {"ok", "error"} :
            MarkRead(room_id, outcome) =>
               LET result == mark_read(room_id, outcome)
                   pointer == rooms[room_id].last_message_id # NoneId
               IN /\ result.called = pointer
                  /\ result.raised = (pointer /\ outcome = "error")
                  /\ rooms' = IF pointer /\ outcome = "ok"
                              THEN [rooms EXCEPT ![room_id].unread_count = 0]
                              ELSE rooms
                  /\ cache' = cache /\ index' = index]_vars

\* r1 has a last message and an unread count of 1 that a refused read marker
\* left in place, r2 has an unread count and no last message
C34_Witness ==
    /\ DOMAIN rooms = Rooms
    /\ rooms["r1"].last_message_id # NoneId /\ rooms["r1"].unread_count = 1
    /\ rooms["r2"].last_message_id = NoneId /\ rooms["r2"].unread_count = 1

\* C35: whatever is delivered twice (by two batches, by a batch and a later
\* backfill or lookup, by repeated backfills), a message id is held at most
\* once by its room's buffer.
C35_NoIdTwiceInBuffer ==
    \A r \in Rooms : \A i, j \in DOMAIN cache[r] :
        i # j => cache[r][i].event_id # cache[r][j].event_id

\* C37: after any sequence of batches, backfills, evictions and clear_room,
\* a snapshot's last_message_id that is set names a record that
\* MessageCache.get_message finds, so the chat's lastMessage is that record's
\* payload and not the empty placeholder.
C37_LastMessagePointerResolves ==
    \A r \in DOMAIN rooms :
        rooms[r].last_message_id # NoneId
            => rooms[r].last_message_id \in DOMAIN index

\* C38: while the readiness flag is not set, the directory and the cache are
\* as they were constructed and nothing has been dispatched; a step that
\* changes any of them is taken with the flag set.
Untouched ==
    /\ rooms = <<>>
    /\ room_contact_map = <<>>
    /\ room_order = <<>>
    /\ index = <<>>
    /\ \A r \in Rooms : cache[r] = <<>>
    /\ dispatched = <<>>
C38_NothingBeforeReady ==
    /\ [](~ready => Untouched)
    /\ [][<<rooms, room_contact_map, room_order, cache, index, dispatched>>'
                # <<rooms, room_contact_map, room_order, cache, index, dispatched>>
            => ready]_vars

\* a batch was applied and its broadcasts dispatched after a failed initial
\* sync had set the flag
C38_Witness ==
    /\ ready
    /\ initial_result # "ok"
    /\ rooms # <<>>
    /\ dispatched # <<>>

\* C14: the shutdown order.  The sockets are closed only after the loop task
\* has ended, and the protocol client and the HTTP transport are released only
\* after the sockets were closed; with the sockets closed no client is left
\* registered to write an event to.
C14_ShutdownOrder ==
    /\ sockets_closed => sync_task \in {"none", "cancelled"}
    /\ client_closed => sockets_closed
    /\ http_closed => sockets_closed
    /\ sockets_closed => clients = {}

----------------------------------------------------------------------------
(* Properties of NotificationSocketServer (SpecSocket) *)

EventFrames(c) == {i \in DOMAIN sent[c] : sent[c][i].kind = "event"}
\* The broadcasts written to connection c
EventNs(c) == {sent[c][i].n : i \in EventFrames(c)}
HasFrame(c, kind) == \E i \in DOMAIN sent[c] : sent[c][i].kind = kind

\* Nothing is left for the event loop to run: every task has ended or waits
\* for something that does not come by itself.
ServerQuiescent == ~ENABLED ServerNext
NoStalledWrite == \A c \in Conns : net[c] # "stalled"
NoFailedWrite == \A t \in BroadcastTasks : bfailed[t] = {}

\* d is registered, authenticated, its peer reads, and its handler waits for
\* the next payload
Healthy(d) ==
    d \in clients /\ authenticated[d] /\ net[d] = "up" /\ hpc[d] = "read"
\* The broadcasts dispatched after d authenticated
Owed(d) == (auth_at[d] + 1)..nemitted
ReceivedAllOwed == \A d \in Conns : Healthy(d) => Owed(d) \subseteq EventNs(d)

\* C5: when the write to one authenticated connection fails during a
\* broadcast, then, once the server has run everything it can (no peer having
\* stopped reading), that connection is out of the registry, and every other
\* connection that was authenticated before that broadcast and is still
\* connected has been written that broadcast and every later one.
C5_FailedWriteDropsOnlyThatClient ==
    (ServerQuiescent /\ NoStalledWrite) =>
        \A t \in BroadcastTasks : \A c \in bfailed[t] :
            /\ c \notin clients
            /\ \A d \in Conns \ {c} :
                  (Healthy(d) /\ auth_at[d] < t) => (t..nemitted) \subseteq EventNs(d)

\* C6: the events written to a connection are in emission order, none twice;
\* and once the server has run everything it can (no peer having stopped
\* reading), a connection that authenticated and is still connected has been
\* written every broadcast dispatched after its authentication.
C6_ReceivesEveryEventInOrder ==
    /\ \A c \in Conns : \A i, j \in EventFrames(c) :
          i < j => sent[c][i].n < sent[c][j].n
    /\ (ServerQuiescent /\ NoStalledWrite) => ReceivedAllOwed

\* C7: no connection is written an event whose broadcast was dispatched before
\* the connection was accepted, pending broadcast tasks included.
C7_NoEventFromBeforeConnect ==
    \A c \in Conns : \A n \in EventNs(c) : n > connected_at[c]

\* A broadcast was dispatched and unfinished when c connected; it has been
\* written to the other connection and not to c, which has since authenticated
\* and been written a later one.
C7_Witness ==
    \E c \in Conns : \E t \in pending_at[c] : \E d \in Conns \ {c} :
        /\ authenticated[c]
        /\ t \in EventNs(d)
        /\ t \notin EventNs(c)
        /\ \E n \in EventNs(c) : n > t

Mismatches == {"auth_wrong", "garbage", "non_object"}

\* C8: a connection whose first payload is not the client sender with the
\* configured token is never written an event, and, once the server has run
\* everything it can (no peer having stopped reading), it has been written a
\* reject frame, is out of the registry and its writer is closed.
C8_MismatchIsRejectedAndDropped ==
    \A c \in Conns :
        first_payload[c] \in Mismatches =>
            /\ EventNs(c) = {}
            /\ (ServerQuiescent /\ NoStalledWrite) =>
                   (HasFrame(c, "reject") /\ c \notin clients /\ closed[c])

\* C9: the ingestion path can always dispatch the next broadcast; and when a
\* peer has stopped reading (no write having failed), the server, having run
\* everything it can, has still written every broadcast to the other
\* authenticated connections.
C9_StalledClientDelaysNoOne ==
    /\ nemitted < MaxEmit => ENABLED Emit
    /\ (ServerQuiescent /\ NoFailedWrite) => ReceivedAllOwed

\* The auth result frames (ok or reject) written to connection c
AuthResultFrames(c) == {i \in DOMAIN sent[c] : sent[c][i].kind \in {"ok", "reject"}}
OkFrames(c) == {i \in DOMAIN sent[c] : sent[c][i].kind = "ok"}

\* C27: the first frame written to a connection is the greeting; an ok frame
\* is written only by the step that handles a payload with the client sender
\* and the configured token on that connection; and a connection is written
\* at most one auth result frame (ok or reject).
C27_GreetingThenOneAuthResult ==
    /\ [](\A c \in Conns :
            /\ sent[c] # <<>> => sent[c][1].kind = "greeting"
            /\ \A i \in DOMAIN sent[c] : i > 1 => sent[c][i].kind # "greeting"
            /\ Cardinality(AuthResultFrames(c)) <= 1)
    /\ [][\A c \in Conns :
            OkFrames(c)' # OkFrames(c) => HandlePayload(c, "auth_ok")]_vars

\* One connection was written the greeting, the ok frame and an event and
\* then sent another auth payload; the other was written the greeting and a
\* reject frame
C27_Witness ==
    \E c, d \in Conns :
        /\ c # d
        /\ HasFrame(c, "ok") /\ EventNs(c) # {} /\ hpc[c] = "read"
        /\ HasFrame(d, "greeting") /\ HasFrame(d, "reject")
        /\ sent[c][1].kind = "greeting"

\* A step that handles a matching auth payload of c, read as it arrives or
\* from the buffer
MatchingAuthHandled(c) ==
    \/ HandlePayload(c, "auth_ok")
    \/ inbuf[c] = "auth_ok" /\ HReadBuffered(c)

\* c was rejected or dropped: it was written a reject frame, or its writer
\* was closed
RejectedOrDropped(c) == HasFrame(c, "reject") \/ closed[c]

\* C28: a connection's authenticated flag is false until its handler reads;
\* it changes only from false to true and only in a step that handles a
\* matching auth payload; and it does not change once the connection was
\* rejected or dropped.
C28_AuthenticatedFlag ==
    /\ [](\A c \in Conns :
            hpc[c] \in {"absent", "created", "register_wait", "greet_drain"}
               => ~authenticated[c])
    /\ [][\A c \in Conns :
            authenticated'[c] # authenticated[c] =>
               /\ authenticated'[c]
               /\ MatchingAuthHandled(c)
               /\ ~RejectedOrDropped(c)]_vars

Unparseable == {"garbage", "non_object"}

\* A step that handles an unparseable payload of c
UnparseableHandled(c) ==
    \/ \E kind \in Unparseable : HandlePayload(c, kind)
    \/ inbuf[c] \in Unparseable /\ HReadBuffered(c)

\* c sent an unparseable payload: as its first payload, or, authenticated,
\* as a later one for which the handler is in _handle_payload's _drop_client
SentUnparseable(c) ==
    \/ first_payload[c] \in Unparseable
    \/ authenticated[c] /\ hpc[c] = "drop_wait_1"

\* C29: the step that handles an unparseable payload of a connection leaves
\* every other connection's registration and authentication state as they
\* were; and once the server has run everything it can (no peer having
\* stopped reading), a connection that sent an unparseable payload is out of
\* the registry and its writer is closed.
C29_UnparseableDropsOnlySender ==
    /\ [][\A c \in Conns : UnparseableHandled(c) =>
            \A d \in Conns \ {c} :
               /\ (d \in clients') = (d \in clients)
               /\ authenticated'[d] = authenticated[d]]_vars
    /\ []((ServerQuiescent /\ NoStalledWrite) =>
            \A c \in Conns : SentUnparseable(c) => (c \notin clients /\ closed[c]))

\* The handler task of c has ended: it returned, or an exception left it
HandlerEnded(c) == hpc[c] \in {"done", "crashed"}

\* C30: the registry holds only clients whose handler is still running: a
\* connection whose handler has ended is not in it.
C30_RegistryHoldsRunningHandlers ==
    \A c \in Conns : HandlerEnded(c) => c \notin clients

\* C36: on every connection, whatever the interleaving of its authentication
\* with the broadcasts that are running, every event frame comes after the ok
\* frame.
C36_OkBeforeEvents ==
    \A c \in Conns : \A i \in EventFrames(c) :
        \E j \in OkFrames(c) : j < i

\* c authenticated while a broadcast dispatched earlier was still running,
\* and was then written that broadcast
C36_Witness ==
    \E c \in Conns :
        /\ OkFrames(c) # {}
        /\ \E n \in EventNs(c) : n <= auth_at[c]

\* C39: stop() completes from every reachable state, whether a broadcast is
\* running, a broadcast write has failed or a peer has stopped reading.  stop()
\* begins by taking the lock (NotifierStop), so once the server has run
\* everything it can, no task is left holding the lock.
C39_StopCompletes ==
    ServerQuiescent => lock_holder = NoTask

====
